---------------------------- MODULE Spec2Model ----------------------------
(***************************************************************************)
(* Calendar11: the free-text appointment extractor.                        *)
(*                                                                         *)
(* A JavaScript string is modelled as a sequence of one-character strings, *)
(* so that every regular expression of the source is matched character by  *)
(* character.  A Date is modelled as a local day number (days since        *)
(* 1970-01-01 in the local zone) with the local wall-clock time of day;    *)
(* the local zone is a fixed offset from UTC (no daylight-saving change).  *)
(***************************************************************************)
EXTENDS Integers, Sequences, FiniteSets, TLC

(***************************************************************************)
(* Characters and character classes of the regular expressions.            *)
(***************************************************************************)
UpperSeq == <<"A","B","C","D","E","F","G","H","I","J","K","L","M",
              "N","O","P","Q","R","S","T","U","V","W","X","Y","Z">>
LowerSeq == <<"a","b","c","d","e","f","g","h","i","j","k","l","m",
              "n","o","p","q","r","s","t","u","v","w","x","y","z">>
DigitSeq == <<"0","1","2","3","4","5","6","7","8","9">>

Upper == {UpperSeq[i] : i \in DOMAIN UpperSeq}
Lower == {LowerSeq[i] : i \in DOMAIN LowerSeq}
Digit == {DigitSeq[i] : i \in DOMAIN DigitSeq}

\* \s of the regular expressions, and the characters String.trim removes
Space == {" ", "\t", "\n"}

\* \w of the regular expressions (it decides \b)
WordChar == Upper \cup Lower \cup Digit \cup {"_"}

\* [\s.-] of the first phone pattern
PhoneSep == Space \cup {".", "-"}

LowerOf == [c \in Upper |-> LowerSeq[CHOOSE i \in DOMAIN UpperSeq : UpperSeq[i] = c]]

DigitVal == [c \in Digit |-> (CHOOSE i \in DOMAIN DigitSeq : DigitSeq[i] = c) - 1]

\* the character at position i (1-based), or "" outside the string
At(s, i) == IF i \in 1..Len(s) THEN s[i] ELSE ""

\* String.prototype.toLowerCase
toLowerCase(s) == [i \in 1..Len(s) |-> IF s[i] \in Upper THEN LowerOf[s[i]] ELSE s[i]]

\* String.prototype.trim
trim(s) ==
  LET keep == {i \in 1..Len(s) : s[i] \notin Space}
  IN  IF keep = {} THEN <<>>
      ELSE LET a == CHOOSE i \in keep : \A j \in keep : i <= j
               b == CHOOSE i \in keep : \A j \in keep : j <= i
           IN  SubSeq(s, a, b)

\* the literal lit occurs in s at position i
MatchesAt(s, i, lit) ==
  /\ i >= 1
  /\ i + Len(lit) - 1 <= Len(s)
  /\ \A k \in 1..Len(lit) : s[i + k - 1] = lit[k]

\* String.prototype.indexOf, 1-based; 0 when sub does not occur
indexOf(s, sub) ==
  LET hits == {i \in 1..(Len(s) + 1) : MatchesAt(s, i, sub)}
  IN  IF hits = {} THEN 0 ELSE CHOOSE i \in hits : \A j \in hits : i <= j

\* String.prototype.includes
includes(s, sub) == indexOf(s, sub) > 0

\* a variant that deletes every occurrence, as a pattern with the g flag would
RECURSIVE replaceEvery(_, _)
replaceEvery(s, sub) ==
  IF sub = <<>> \/ indexOf(s, sub) = 0 THEN s
  ELSE SubSeq(s, 1, indexOf(s, sub) - 1) \o
       replaceEvery(SubSeq(s, indexOf(s, sub) + Len(sub), Len(s)), sub)

\* s.replace(sub, '') with a string pattern: the first occurrence is deleted
replaceFirst(s, sub) ==
  LET i == indexOf(s, sub)
  IN  IF i = 0 THEN s
      ELSE SubSeq(s, 1, i - 1) \o SubSeq(s, i + Len(sub), Len(s))

\* s.replace(/\D/g, '')
RECURSIVE stripNonDigits(_)
stripNonDigits(s) ==
  IF s = <<>> THEN <<>>
  ELSE (IF Head(s) \in Digit THEN <<Head(s)>> ELSE <<>>) \o stripNonDigits(Tail(s))

\* parseInt of a string of decimal digits
RECURSIVE parseInt(_)
parseInt(s) ==
  IF s = <<>> THEN 0
  ELSE 10 * parseInt(SubSeq(s, 1, Len(s) - 1)) + DigitVal[s[Len(s)]]

\* \d{n} at position i
DigitsAt(s, i, n) == \A k \in 0..(n - 1) : At(s, i + k) \in Digit

\* \b between position i-1 and position i
WordBoundary(s, i) == (At(s, i - 1) \in WordChar) # (At(s, i) \in WordChar)

\* the first position >= i that holds no \s character (\s* is greedy)
RECURSIVE skipSpaces(_, _)
skipSpaces(s, i) == IF At(s, i) \in Space THEN skipSpaces(s, i + 1) ELSE i


(***************************************************************************)
(* Dates.  A Date value is [days, h, mi, s, ms]: the local day number and  *)
(* the local time of day.  Day 0 is 1970-01-01, a Thursday.                *)
(***************************************************************************)

\* days since 1970-01-01 of the proleptic Gregorian date y-m-d (m in 1..12)
DaysFromCivil(y, m, d) ==
  LET yy  == IF m <= 2 THEN y - 1 ELSE y
      era == yy \div 400
      yoe == yy - era * 400
      mp  == IF m > 2 THEN m - 3 ELSE m + 9
      doy == (153 * mp + 2) \div 5 + d - 1
      doe == yoe * 365 + yoe \div 4 - yoe \div 100 + doy
  IN  era * 146097 + doe - 719468

\* the Gregorian date [y, m, d] of a day number
CivilFromDays(z) ==
  LET zz  == z + 719468
      era == zz \div 146097
      doe == zz - era * 146097
      yoe == (doe - doe \div 1460 + doe \div 36524 - doe \div 146096) \div 365
      doy == doe - (365 * yoe + yoe \div 4 - yoe \div 100)
      mp  == (5 * doy + 2) \div 153
      d   == doy - (153 * mp + 2) \div 5 + 1
      m   == IF mp < 10 THEN mp + 3 ELSE mp - 9
  IN  [y |-> IF m <= 2 THEN yoe + era * 400 + 1 ELSE yoe + era * 400, m |-> m, d |-> d]

\* Date.prototype.getDay: 0 is Sunday
getDay(date) == (date.days + 4) % 7

\* Date.prototype.getFullYear
getFullYear(date) == CivilFromDays(date.days).y

\* date.setDate(date.getDate() + n)
addDays(date, n) == [date EXCEPT !.days = @ + n]

\* new Date(year, month, day): month is 0-based, a year in 0..99 means 1900 + year,
\* month and day outside their ranges carry over; the time of day is midnight
newDate(year, month, day) ==
  LET y0 == IF year >= 0 /\ year <= 99 THEN 1900 + year ELSE year
      y  == y0 + month \div 12
      m  == month % 12
  IN  [days |-> DaysFromCivil(y, m + 1, 1) + day - 1, h |-> 0, mi |-> 0, s |-> 0, ms |-> 0]

\* date.setHours(hours, minutes, 0, 0): hours and minutes outside their ranges carry over
setHours(date, hours, minutes) ==
  LET total == hours * 60 + minutes
  IN  [days |-> date.days + total \div 1440,
       h    |-> (total % 1440) \div 60,
       mi   |-> total % 60,
       s    |-> 0,
       ms   |-> 0]

\* n in decimal, at least w digits wide, zero-padded
RECURSIVE pad(_, _)
pad(n, w) ==
  IF w <= 1 /\ n < 10 THEN <<DigitSeq[n + 1]>>
  ELSE pad(n \div 10, w - 1) \o <<DigitSeq[(n % 10) + 1]>>

\* Date.prototype.toISOString in a zone whose getTimezoneOffset() is tzOffset minutes:
\* the UTC fields, as YYYY-MM-DDTHH:mm:ss.sssZ (a year beyond 9999 as +YYYYYY)
toISOString(date, tzOffset) ==
  LET total == date.h * 60 + date.mi + tzOffset
      c     == CivilFromDays(date.days + total \div 1440)
      hh    == (total % 1440) \div 60
      mm    == total % 60
      year  == IF c.y >= 0 /\ c.y <= 9999 THEN pad(c.y, 4)
               ELSE IF c.y > 9999 THEN <<"+">> \o pad(c.y, 6)
               ELSE <<"-">> \o pad(0 - c.y, 6)
  IN  year \o <<"-">> \o pad(c.m, 2) \o <<"-">> \o pad(c.d, 2) \o <<"T">> \o
      pad(hh, 2) \o <<":">> \o pad(mm, 2) \o <<":">> \o pad(date.s, 2) \o
      <<".">> \o pad(date.ms, 3) \o <<"Z">>

(***************************************************************************)
(* Regular-expression matching.  String.prototype.match without the g flag *)
(* returns the leftmost match; at one start position the alternatives are  *)
(* tried in the order of the pattern (greedy quantifiers first).  A        *)
(* pattern is given by an operator End(s, i): the position of the last     *)
(* character of its match starting at i, 0 when it does not match there.   *)
(***************************************************************************)

\* the least element of a set of positive integers, 0 when it is empty
leastOrZero(S) == IF S = {} THEN 0 ELSE CHOOSE x \in S : \A y \in S : x <= y

\* the match starting at position i (no match when i = 0)
matchAtIndex(s, End(_, _), i) ==
  [found |-> i > 0, index |-> i, end |-> IF i > 0 THEN End(s, i) ELSE 0]

\* the leftmost match of a pattern
firstMatch(s, End(_, _)) ==
  matchAtIndex(s, End, leastOrZero({i \in 1..Len(s) : End(s, i) > 0}))

\* match[0]
matched(s, m) == IF m.found THEN SubSeq(s, m.index, m.end) ELSE <<>>

(***************************************************************************)
(* extractName                                                             *)
(***************************************************************************)
\* the pattern is /^([A-Z][a-z]+(?:\s+[A-Z][a-z]+)*)/
RECURSIVE lowerRunEnd(_, _)
lowerRunEnd(s, i) == IF At(s, i + 1) \in Lower THEN lowerRunEnd(s, i + 1) ELSE i

\* [A-Z][a-z]+ at position i: the position of its last character, 0 when no match
capWordEnd(s, i) ==
  IF At(s, i) \in Upper /\ At(s, i + 1) \in Lower THEN lowerRunEnd(s, i + 1) ELSE 0

\* the repeated group (?:\s+[A-Z][a-z]+) after a match ending at e: the end of the run
RECURSIVE nameRunEnd(_, _)
nameRunEnd(s, e) ==
  LET j == skipSpaces(s, e + 1)
  IN  IF j > e + 1 /\ capWordEnd(s, j) > 0 THEN nameRunEnd(s, capWordEnd(s, j)) ELSE e

NoName == [found |-> FALSE, value |-> <<>>]

\* nameMatch ? nameMatch[1] : null, for a first word ending at e (0: no match)
nameFrom(text, e) ==
  IF e = 0 THEN NoName ELSE [found |-> TRUE, value |-> SubSeq(text, 1, nameRunEnd(text, e))]

\* a variant without the ^ of the pattern: the first run of capitalised words anywhere
extractNameAnywhere(text) ==
  LET i == leastOrZero({k \in 1..Len(text) : capWordEnd(text, k) > 0})
  IN  IF i = 0 THEN NoName
      ELSE [found |-> TRUE, value |-> SubSeq(text, i, nameRunEnd(text, capWordEnd(text, i)))]

extractName(text) == nameFrom(text, capWordEnd(text, 1))

(***************************************************************************)
(* extractPhone                                                            *)
(***************************************************************************)
\* a variant of the first pattern in which both separators are required:
\* /\(?\d{3}\)?[\s.-]\d{3}[\s.-]\d{4}/
phonePattern1EndSeparated(s, i) ==
  LET p1 == IF At(s, i) = "(" THEN i + 1 ELSE i
      p3 == IF At(s, p1 + 3) = ")" THEN p1 + 4 ELSE p1 + 3
  IN  IF /\ DigitsAt(s, p1, 3) /\ At(s, p3) \in PhoneSep /\ DigitsAt(s, p3 + 1, 3)
         /\ At(s, p3 + 4) \in PhoneSep /\ DigitsAt(s, p3 + 5, 4)
      THEN p3 + 8 ELSE 0

\* a variant of the first pattern that admits no separator: /\(?\d{3}\)?\d{3}\d{4}/
phonePattern1EndNoSeparator(s, i) ==
  LET p1 == IF At(s, i) = "(" THEN i + 1 ELSE i
      p3 == IF At(s, p1 + 3) = ")" THEN p1 + 4 ELSE p1 + 3
  IN  IF DigitsAt(s, p1, 3) /\ DigitsAt(s, p3, 7) THEN p3 + 6 ELSE 0

\* /\(?\d{3}\)?[\s.-]?\d{3}[\s.-]?\d{4}/ at position i
phonePattern1End(s, i) ==
  LET p1 == IF At(s, i) = "(" THEN i + 1 ELSE i
      p3 == IF At(s, p1 + 3) = ")" THEN p1 + 4 ELSE p1 + 3
      p4 == IF At(s, p3) \in PhoneSep THEN p3 + 1 ELSE p3
      p6 == IF At(s, p4 + 3) \in PhoneSep THEN p4 + 4 ELSE p4 + 3
  IN  IF DigitsAt(s, p1, 3) /\ DigitsAt(s, p4, 3) /\ DigitsAt(s, p6, 4) THEN p6 + 3 ELSE 0

\* /\d{10}/ at position i
phonePattern2End(s, i) == IF DigitsAt(s, i, 10) THEN i + 9 ELSE 0

\* a variant that cuts the second group one digit short: slice(3, 5)
formatPhoneShortGroup(digits) ==
  SubSeq(digits, 1, 3) \o <<"-">> \o SubSeq(digits, 4, 5) \o <<"-">> \o
  SubSeq(digits, 7, Len(digits))

\* `${digits.slice(0, 3)}-${digits.slice(3, 6)}-${digits.slice(6)}`
formatPhone(digits) ==
  SubSeq(digits, 1, 3) \o <<"-">> \o SubSeq(digits, 4, 6) \o <<"-">> \o
  SubSeq(digits, 7, Len(digits))

NoPhone == [found |-> FALSE, raw |-> <<>>, formatted |-> <<>>]

\* lines 52-56: a match is taken only when exactly 10 digits remain of it
phoneFrom(raw, digits) ==
  IF Len(digits) = 10 THEN [found |-> TRUE, raw |-> raw, formatted |-> formatPhone(digits)]
  ELSE NoPhone

\* one pattern of the loop
phoneAttempt(text, m) ==
  IF m.found THEN phoneFrom(matched(text, m), stripNonDigits(matched(text, m))) ELSE NoPhone

\* the loop returns at the first pattern that yields a phone
firstFound(a, b) == IF a.found THEN a ELSE b

extractPhone(text) ==
  firstFound(phoneAttempt(text, firstMatch(text, phonePattern1End)),
             phoneAttempt(text, firstMatch(text, phonePattern2End)))

(***************************************************************************)
(* extractDateTime                                                         *)
(***************************************************************************)
TomorrowWord == <<"t","o","m","o","r","r","o","w">>
NextWord == <<"n","e","x","t">>

\* const weekdays = ['sunday', ..., 'saturday']; weekdays.indexOf(w) is the position - 1
weekdays == <<
  <<"s","u","n","d","a","y">>,
  <<"m","o","n","d","a","y">>,
  <<"t","u","e","s","d","a","y">>,
  <<"w","e","d","n","e","s","d","a","y">>,
  <<"t","h","u","r","s","d","a","y">>,
  <<"f","r","i","d","a","y">>,
  <<"s","a","t","u","r","d","a","y">> >>

\* (monday|tuesday|...|sunday)\b at position j: the position in weekdays, 0 when none
weekdayAt(s, j) ==
  leastOrZero({k \in DOMAIN weekdays :
                 MatchesAt(s, j, weekdays[k]) /\ WordBoundary(s, j + Len(weekdays[k]))})

\* (next\s+) at position i: the position after it, 0 when it does not match
nextPrefixEnd(s, i, j) == IF MatchesAt(s, i, NextWord) /\ j > i + Len(NextWord) THEN j ELSE 0
nextPrefixAt(s, i) == nextPrefixEnd(s, i, skipSpaces(s, i + Len(NextWord)))

\* the end of the weekday name k standing at position j (0 when k = 0 or j = 0)
weekdayEnd(j, k) == IF j = 0 \/ k = 0 THEN 0 ELSE j + Len(weekdays[k]) - 1

\* the weekday name at position j, 0 when j = 0 or none stands there
weekdayEndAt(s, j) == weekdayEnd(j, IF j = 0 THEN 0 ELSE weekdayAt(s, j))

\* with the optional group tried first, then without it
weekdayAlternatives(boundary, withNext, without) ==
  IF ~boundary THEN 0 ELSE IF withNext > 0 THEN withNext ELSE without

\* /\b(next\s+)?(monday|tuesday|wednesday|thursday|friday|saturday|sunday)\b/ at position i
weekdayPatternEnd(s, i) ==
  weekdayAlternatives(WordBoundary(s, i), weekdayEndAt(s, nextPrefixAt(s, i)),
                      weekdayEndAt(s, i))

\* lines 77-81: the match, whether group 1 (next) took part, and weekdays.indexOf(group 2)
weekdayGroups(lowerText, m, afterNext) ==
  [found |-> m.found, index |-> m.index, end |-> m.end,
   nameAt |-> IF afterNext > 0 /\ weekdayAt(lowerText, afterNext) > 0 THEN afterNext
              ELSE m.index,
   isNext |-> m.found /\ afterNext > 0 /\ weekdayAt(lowerText, afterNext) > 0,
   targetWeekday |-> IF ~m.found THEN 0 - 1
                     ELSE IF afterNext > 0 /\ weekdayAt(lowerText, afterNext) > 0
                          THEN weekdayAt(lowerText, afterNext) - 1
                     ELSE weekdayAt(lowerText, m.index) - 1]

weekdayGroupsOf(lowerText, m) ==
  weekdayGroups(lowerText, m, IF m.found THEN nextPrefixAt(lowerText, m.index) ELSE 0)

weekdayMatch(lowerText) == weekdayGroupsOf(lowerText, firstMatch(lowerText, weekdayPatternEnd))

\* a variant of line 87 with < in place of <=
daysToAddStrict(diff, isNext) == IF diff < 0 \/ isNext THEN diff + 7 ELSE diff

\* lines 85-89
daysToAdd(diff, isNext) == IF diff <= 0 \/ isNext THEN diff + 7 ELSE diff

\* lines 83-91: the date of the weekday stage
weekdayDate(now, targetWeekday, isNext) ==
  addDays(now, daysToAdd(targetWeekday - getDay(now), isNext))

\* the alternatives of /\b(\d{1,2})\/(\d{1,2})(?:\/(\d{2,4}))?\b/ at one position, in the
\* order the matcher tries them: the lengths of groups 1, 2 and 3 (0: group 3 absent)
specificDateShapes ==
  << <<2,2,4>>, <<2,2,3>>, <<2,2,2>>, <<2,2,0>>, <<2,1,4>>, <<2,1,3>>, <<2,1,2>>, <<2,1,0>>,
     <<1,2,4>>, <<1,2,3>>, <<1,2,2>>, <<1,2,0>>, <<1,1,4>>, <<1,1,3>>, <<1,1,2>>, <<1,1,0>> >>

specificDateShapeEnd(s, i, c) ==
  IF /\ WordBoundary(s, i)
     /\ DigitsAt(s, i, c[1])
     /\ At(s, i + c[1]) = "/"
     /\ DigitsAt(s, i + c[1] + 1, c[2])
     /\ c[3] > 0 => (At(s, i + c[1] + 1 + c[2]) = "/" /\ DigitsAt(s, i + c[1] + c[2] + 2, c[3]))
     /\ WordBoundary(s, i + c[1] + 1 + c[2] + (IF c[3] = 0 THEN 0 ELSE c[3] + 1))
  THEN i + c[1] + c[2] + (IF c[3] = 0 THEN 0 ELSE c[3] + 1)
  ELSE 0

\* the first alternative that matches at position i, 0 when none does
specificDateShapeAt(s, i) ==
  leastOrZero({k \in DOMAIN specificDateShapes :
                 specificDateShapeEnd(s, i, specificDateShapes[k]) > 0})

specificDateEndOf(s, i, k) ==
  IF k = 0 THEN 0 ELSE specificDateShapeEnd(s, i, specificDateShapes[k])

specificDatePatternEnd(s, i) == specificDateEndOf(s, i, specificDateShapeAt(s, i))

\* the match and its groups for the alternative c (group 3 is empty when undefined)
specificDateGroups(text, m, c) ==
  [found |-> m.found, index |-> m.index, end |-> m.end,
   g1 |-> IF m.found THEN SubSeq(text, m.index, m.index + c[1] - 1) ELSE <<>>,
   g2 |-> IF m.found THEN SubSeq(text, m.index + c[1] + 1, m.index + c[1] + c[2]) ELSE <<>>,
   g3 |-> IF m.found /\ c[3] > 0 THEN SubSeq(text, m.end - c[3] + 1, m.end) ELSE <<>>]

specificDateGroupsOf(text, m) ==
  specificDateGroups(text, m,
    IF m.found THEN specificDateShapes[specificDateShapeAt(text, m.index)] ELSE <<0, 0, 0>>)

\* line 95
specificDateMatch(text) == specificDateGroupsOf(text, firstMatch(text, specificDatePatternEnd))

\* a variant of lines 99-101 that takes a two-digit year as written
specificYearAsWritten(now, g3) == IF g3 # <<>> THEN parseInt(g3) ELSE getFullYear(now)

\* lines 99-101
specificYear(now, g3) ==
  IF g3 # <<>> THEN (IF Len(g3) = 2 THEN 2000 + parseInt(g3) ELSE parseInt(g3))
  ELSE getFullYear(now)

\* lines 97-103: the date of the numeric-date stage
specificDate(now, g1, g2, g3) == newDate(specificYear(now, g3), parseInt(g1) - 1, parseInt(g2))

\* the alternatives of /\b(\d{1,2})(?::(\d{2}))?\s*(am|pm)\b/i at one position, in the
\* order the matcher tries them: the length of group 1 and whether group 2 takes part
time12Shapes == << <<2, TRUE>>, <<2, FALSE>>, <<1, TRUE>>, <<1, FALSE>> >>

\* (am|pm)\b at position j, in any letter case
meridiemAt(s, j) ==
  At(s, j) \in {"a", "A", "p", "P"} /\ At(s, j + 1) \in {"m", "M"} /\ WordBoundary(s, j + 2)

\* one alternative, (am|pm) standing at position j
time12ShapeEndAt(s, i, c, j) ==
  IF /\ WordBoundary(s, i)
     /\ DigitsAt(s, i, c[1])
     /\ c[2] => (At(s, i + c[1]) = ":" /\ DigitsAt(s, i + c[1] + 1, 2))
     /\ meridiemAt(s, j)
  THEN j + 1 ELSE 0

time12ShapeEnd(s, i, c) ==
  time12ShapeEndAt(s, i, c, skipSpaces(s, IF c[2] THEN i + c[1] + 3 ELSE i + c[1]))

time12ShapeAt(s, i) ==
  leastOrZero({k \in DOMAIN time12Shapes : time12ShapeEnd(s, i, time12Shapes[k]) > 0})

time12EndOf(s, i, k) == IF k = 0 THEN 0 ELSE time12ShapeEnd(s, i, time12Shapes[k])

time12PatternEnd(s, i) == time12EndOf(s, i, time12ShapeAt(s, i))

\* the match and its groups for the alternative c (group 2 is empty when undefined)
time12Groups(text, m, c) ==
  [found |-> m.found, index |-> m.index, end |-> m.end,
   g1 |-> IF m.found THEN SubSeq(text, m.index, m.index + c[1] - 1) ELSE <<>>,
   g2 |-> IF m.found /\ c[2] THEN SubSeq(text, m.index + c[1] + 1, m.index + c[1] + 2)
          ELSE <<>>,
   meridiem |-> IF m.found THEN toLowerCase(SubSeq(text, m.end - 1, m.end)) ELSE <<>>]

time12GroupsOf(text, m) ==
  time12Groups(text, m,
    IF m.found THEN time12Shapes[time12ShapeAt(text, m.index)] ELSE <<0, FALSE>>)

\* line 107
time12HourMatch(text) == time12GroupsOf(text, firstMatch(text, time12PatternEnd))

NoTime == [set |-> FALSE, hours |-> 0, minutes |-> 0]

\* a variant of lines 113-114 that treats 12 like every other hour
to24HourPlain(hours, meridiem) == IF meridiem = <<"p", "m">> THEN hours + 12 ELSE hours

\* lines 113-114
to24Hour(hours, meridiem) ==
  IF meridiem = <<"p", "m">> /\ hours # 12 THEN hours + 12
  ELSE IF meridiem = <<"a", "m">> /\ hours = 12 THEN 0
  ELSE hours

\* lines 109-116: the time of the 12-hour stage
time12(g1, g2, meridiem) ==
  [set |-> TRUE, hours |-> to24Hour(parseInt(g1), meridiem),
   minutes |-> IF g2 # <<>> THEN parseInt(g2) ELSE 0]

\* /\b(\d{1,2}):(\d{2})\b/ at position i with n digits in group 1
time24ShapeEnd(s, i, n) ==
  IF /\ WordBoundary(s, i)
     /\ DigitsAt(s, i, n)
     /\ At(s, i + n) = ":"
     /\ DigitsAt(s, i + n + 1, 2)
     /\ WordBoundary(s, i + n + 3)
  THEN i + n + 2 ELSE 0

\* two digits are tried before one
time24PatternEnd(s, i) ==
  IF time24ShapeEnd(s, i, 2) > 0 THEN i + 4 ELSE time24ShapeEnd(s, i, 1)

time24Groups(text, m) ==
  [found |-> m.found, index |-> m.index, end |-> m.end,
   g1 |-> IF m.found THEN SubSeq(text, m.index, m.end - 3) ELSE <<>>,
   g2 |-> IF m.found THEN SubSeq(text, m.end - 1, m.end) ELSE <<>>]

\* line 120
time24HourMatch(text) == time24Groups(text, firstMatch(text, time24PatternEnd))

\* a variant of line 125 with <= in place of <
time24InRangeInclusive(hours, minutes) ==
  hours >= 0 /\ hours <= 24 /\ minutes >= 0 /\ minutes <= 60

\* line 125: the range check of the 24-hour stage
time24InRange(hours, minutes) == hours >= 0 /\ hours < 24 /\ minutes >= 0 /\ minutes < 60

\* lines 121-129: the time of the 24-hour stage, when it contributes
time24(g1, g2) ==
  IF time24InRange(parseInt(g1), parseInt(g2))
  THEN [set |-> TRUE, hours |-> parseInt(g1), minutes |-> parseInt(g2)]
  ELSE NoTime

(***************************************************************************)
(* The cascade of extractDateTime.  A stage takes the working values so    *)
(* far, [targetDate, targetTime, matchedText] (with flags telling which    *)
(* date stages matched), and returns them as it leaves them.               *)
(***************************************************************************)

\* lines 65-69
stage0(now) ==
  [targetDate |-> now, targetTime |-> NoTime, matchedText |-> <<>>,
   tomorrow |-> FALSE, weekday |-> FALSE, weekdayAt |-> 0, isNext |-> FALSE,
   targetWeekday |-> 0 - 1, numeric |-> FALSE, time12 |-> FALSE, time24 |-> FALSE]

\* a variant that takes tomorrow as a whole word only: /\btomorrow\b/
tomorrowStageWholeWord(w, lowerText, now) ==
  IF \E i \in 1..Len(lowerText) :
       /\ MatchesAt(lowerText, i, TomorrowWord)
       /\ WordBoundary(lowerText, i) /\ WordBoundary(lowerText, i + Len(TomorrowWord))
  THEN [w EXCEPT !.targetDate = addDays(now, 1), !.matchedText = TomorrowWord,
                 !.tomorrow = TRUE]
  ELSE w

\* lines 71-75
tomorrowStage(w, lowerText, now) ==
  IF includes(lowerText, TomorrowWord)
  THEN [w EXCEPT !.targetDate = addDays(now, 1), !.matchedText = TomorrowWord,
                 !.tomorrow = TRUE]
  ELSE w

\* a variant in which the weekday stage leaves a date set by the tomorrow stage alone
weekdayStageFirstWins(w, lowerText, m, now) ==
  IF m.found /\ ~w.tomorrow
  THEN [w EXCEPT !.targetDate = weekdayDate(now, m.targetWeekday, m.isNext),
                 !.matchedText = matched(lowerText, m),
                 !.weekday = TRUE, !.weekdayAt = m.nameAt, !.isNext = m.isNext,
                 !.targetWeekday = m.targetWeekday]
  ELSE [w EXCEPT !.weekday = m.found, !.weekdayAt = m.nameAt, !.isNext = m.isNext,
                 !.targetWeekday = m.targetWeekday]

\* lines 77-93
weekdayStage(w, lowerText, m, now) ==
  IF m.found
  THEN [w EXCEPT !.targetDate = weekdayDate(now, m.targetWeekday, m.isNext),
                 !.matchedText = matched(lowerText, m),
                 !.weekday = TRUE, !.weekdayAt = m.nameAt, !.isNext = m.isNext,
                 !.targetWeekday = m.targetWeekday]
  ELSE w

\* lines 95-105
specificDateStage(w, text, m, now) ==
  IF m.found
  THEN [w EXCEPT !.targetDate = specificDate(now, m.g1, m.g2, m.g3),
                 !.matchedText = matched(text, m), !.numeric = TRUE]
  ELSE w

\* lines 107-118
time12Stage(w, text, m) ==
  IF m.found
  THEN [w EXCEPT !.targetTime = time12(m.g1, m.g2, m.meridiem),
                 !.matchedText = w.matchedText \o <<" ">> \o matched(text, m),
                 !.time12 = TRUE]
  ELSE w

\* lines 120-129
time24Stage(w, text, m) ==
  IF m.found /\ ~w.time12 /\ time24(m.g1, m.g2).set
  THEN [w EXCEPT !.targetTime = time24(m.g1, m.g2),
                 !.matchedText = w.matchedText \o <<" ">> \o matched(text, m),
                 !.time24 = TRUE]
  ELSE w

\* lines 64-129: the stages in their fixed order
dateStages(text, lowerText, now) ==
  specificDateStage(
    weekdayStage(tomorrowStage(stage0(now), lowerText, now),
                 lowerText, weekdayMatch(lowerText), now),
    text, specificDateMatch(text), now)

dateTimeStages(text, now) ==
  time24Stage(
    time12Stage(dateStages(text, toLowerCase(text), now), text, time12HourMatch(text)),
    text, time24HourMatch(text))

\* lines 131-135: the time of day is applied to the working date
composeDate(targetDate, targetTime) ==
  IF targetTime.set THEN setHours(targetDate, targetTime.hours, targetTime.minutes)
  ELSE setHours(targetDate, 9, 0)

\* lines 137-140: the object returned; date is the Date value datetime is the text of,
\* stages are the function's local variables when it returns
dateTimeInfoOf(w, date, tz) ==
  [found |-> TRUE, raw |-> trim(w.matchedText), date |-> date,
   datetime |-> toISOString(date, tz), stages |-> w]

dateTimeResult(w, tz) == dateTimeInfoOf(w, composeDate(w.targetDate, w.targetTime), tz)

\* lines 63-141; the function returns an object on every path, never null
extractDateTime(text, now, tz) == dateTimeResult(dateTimeStages(text, now), tz)

(***************************************************************************)
(* The rule-based extractor: the pipeline name -> phone -> date/time.      *)
(***************************************************************************)
Unknown == <<"U","n","k","n","o","w","n">>
NoPhoneText == <<"N","o"," ","p","h","o","n","e">>
NoDetails == <<"N","o"," ","d","e","t","a","i","l","s"," ","p","r","o","v","i","d","e","d">>

\* the absent result (null), in the shape of a record
NullResult == [isNull |-> TRUE, name |-> <<>>, phone |-> <<>>, details |-> <<>>, datetime |-> <<>>]

\* remainingText.replace(raw, '').trim(), done only when the sub-extractor returned a value
removeMatch(remainingText, found, raw) ==
  IF found THEN trim(replaceFirst(remainingText, raw)) ELSE remainingText

\* a variant of lines 13-16 that leaves the name in the working text
nameStepKeepsName(t0, name) == [name |-> name, afterName |-> t0]

\* lines 13-16
nameStep(t0, name) ==
  [name |-> name, afterName |-> removeMatch(t0, name.found, name.value)]

\* lines 18-21
phoneStep(st, phone) ==
  [name |-> st.name, afterName |-> st.afterName, phone |-> phone,
   afterPhone |-> removeMatch(st.afterName, phone.found, phone.raw)]

\* a variant of line 28 without the || 'No details provided'
detailsOfNoSentinel(remainingText) == trim(remainingText)

\* line 28
detailsOf(remainingText) == IF trim(remainingText) # <<>> THEN trim(remainingText) ELSE NoDetails

\* lines 23-28
dateTimeStep(st, dt) ==
  [name |-> st.name, afterName |-> st.afterName, phone |-> st.phone,
   afterPhone |-> st.afterPhone, dateTimeInfo |-> dt,
   remainingText |-> removeMatch(st.afterPhone, dt.found, dt.raw),
   details |-> detailsOf(removeMatch(st.afterPhone, dt.found, dt.raw))]

withDateTime(st, now, tz) == dateTimeStep(st, extractDateTime(st.afterPhone, now, tz))

withPhone(st) == phoneStep(st, extractPhone(st.afterName))

\* lines 11-28 of parseAppointment: the working text after each stage and what each
\* sub-extractor returned
parseSteps(text, now, tz) ==
  withDateTime(withPhone(nameStep(trim(text), extractName(trim(text)))), now, tz)

\* the record of lines 30-35
parsedRecord(st, now, tz) ==
  [isNull   |-> FALSE,
   name     |-> IF st.name.found THEN st.name.value ELSE Unknown,
   phone    |-> IF st.phone.found THEN st.phone.formatted ELSE NoPhoneText,
   details  |-> st.details,
   datetime |-> IF st.dateTimeInfo.found THEN st.dateTimeInfo.datetime
                ELSE toISOString(now, tz)]

\* a run of the rule-based extractor: the value it returns and its local variables
NoSteps == [ran |-> FALSE]
NullRun == [value |-> NullResult, steps |-> NoSteps]
runOf(st, now, tz) == [value |-> parsedRecord(st, now, tz), steps |-> st]

\* a variant without the guard of line 9
parseAppointmentRunNoGuard(text, now, tz) == runOf(parseSteps(text, now, tz), now, tz)

\* a run of the synchronous parseAppointment
parseAppointmentRun(text, now, tz) ==
  IF trim(text) = <<>> THEN NullRun ELSE runOf(parseSteps(text, now, tz), now, tz)

\* the synchronous parseAppointment
parseAppointment(text, now, tz) == parseAppointmentRun(text, now, tz).value

\* a run of fallbackParser of the remote-first parser: the same pipeline, copied
fallbackParserRun(text, now, tz) ==
  IF trim(text) = <<>> THEN NullRun ELSE runOf(parseSteps(text, now, tz), now, tz)

fallbackParser(text, now, tz) == fallbackParserRun(text, now, tz).value

(***************************************************************************)
(* The remote-first parseAppointment: what the remote service can answer.  *)
(***************************************************************************)
Absent == [present |-> FALSE, value |-> <<>>]
Field(v) == [present |-> TRUE, value |-> v]

\* the field values a remote answer may carry
RemotePhone10 == <<"8","1","8","9","9","9","0","0","0","0">>
RemoteNames == {Absent, Field(<<"S","a","m">>)}
RemotePhones == {Absent, Field(RemotePhone10), Field(<<"8","1","8","-","9","9","9","-","0","0","0","0">>), Field(<<"5","5","5","-","1","2","3","4">>)}
RemoteDetails == {Absent, Field(<<"m","e","e","t","i","n","g">>)}
RemoteDatetimes == {Absent, Field(<<"2","0","2","5","-","1","2","-","2","9","T","2","0",":","0","0",":","0","0",".","0","0","0","Z">>)}

\* the values JSON.parse can return for the content: null, or an object with any of the
\* four fields
JsonNull == [isNull |-> TRUE, name |-> Absent, phone |-> Absent, details |-> Absent,
             datetime |-> Absent]
RemoteObjects ==
  {[isNull |-> FALSE, name |-> n, phone |-> p, details |-> d, datetime |-> t] :
     n \in RemoteNames, p \in RemotePhones, d \in RemoteDetails, t \in RemoteDatetimes}

\* a response: the HTTP status is a success or not, the body is JSON or not, the message
\* content is there or not, is wrapped in a ``` fence or not, parses as JSON or not
Fences == {"none", "json", "plain"}
BaseResponse == [ok |-> TRUE, bodyJson |-> TRUE, hasContent |-> TRUE, fence |-> "none",
                 parses |-> TRUE, parsed |-> JsonNull]
Responses ==
  {[BaseResponse EXCEPT !.ok = FALSE],
   [BaseResponse EXCEPT !.bodyJson = FALSE],
   [BaseResponse EXCEPT !.hasContent = FALSE],
   [BaseResponse EXCEPT !.parses = FALSE],
   BaseResponse}
  \cup {[BaseResponse EXCEPT !.parsed = o] : o \in RemoteObjects}
  \cup {[BaseResponse EXCEPT !.fence = f,
                              !.parsed = CHOOSE o \in RemoteObjects :
                                           o.name.present /\ o.details.present /\
                                           o.datetime.present /\ o.phone = Field(RemotePhone10)] :
           f \in Fences}

\* x || fallback for an optional string: the empty string is falsy too
orElse(field, fallback) == IF field.present /\ field.value # <<>> THEN field.value ELSE fallback

\* lines 105-111: the phone of a remote answer
remotePhone(parsed) ==
  LET formattedPhone == orElse(parsed.phone, NoPhoneText)
      digits == stripNonDigits(formattedPhone)
  IN  IF formattedPhone # NoPhoneText /\ Len(digits) = 10 THEN formatPhone(digits)
      ELSE formattedPhone

\* lines 113-118: the record built from a remote answer
remoteResult(parsed, now, tz) ==
  [isNull   |-> FALSE,
   name     |-> orElse(parsed.name, Unknown),
   phone    |-> remotePhone(parsed),
   details  |-> orElse(parsed.details, NoDetails),
   datetime |-> orElse(parsed.datetime, toISOString(now, tz))]

\* a catch block that logs and throws again instead of falling back
catchHandlerRethrows(text, now, tz) ==
  [outcome |-> "rejected", value |-> NullResult, steps |-> NoSteps, calls |-> 0]

\* lines 123-130: the catch block turns every exception of the try block into the fallback
\* what a return fallbackParser(text) settles the promise with: one call of fallbackParser
fallbackOutcome(run) ==
  [outcome |-> "resolved", value |-> run.value, steps |-> run.steps, calls |-> 1]

catchHandler(text, now, tz) == fallbackOutcome(fallbackParserRun(text, now, tz))

\* lines 14-17, 75-79 and 86-89: the early returns into the fallback
earlyFallback(text, now, tz) == fallbackOutcome(fallbackParserRun(text, now, tz))

(***************************************************************************)
(* Inputs and clocks.                                                      *)
(***************************************************************************)
\* the pieces the inputs are put together from
Vocabulary == <<
  \* "John Doe "
  <<"J","o","h","n"," ","D","o","e"," ">>,
  \* "7205551212 "
  <<"7","2","0","5","5","5","1","2","1","2"," ">>,
  \* "(303) 555-1234 "
  <<"(","3","0","3",")"," ","5","5","5","-","1","2","3","4"," ">>,
  \* "wants estimate "
  <<"w","a","n","t","s"," ","e","s","t","i","m","a","t","e"," ">>,
  \* "Tuesday "
  <<"T","u","e","s","d","a","y"," ">>,
  \* "at "
  <<"a","t"," ">>,
  \* "3pm"
  <<"3","p","m">>,
  \* "tomorrow "
  <<"t","o","m","o","r","r","o","w"," ">>,
  \* "next friday "
  <<"n","e","x","t"," ","f","r","i","d","a","y"," ">>,
  \* "12/20 "
  <<"1","2","/","2","0"," ">>,
  \* "14:30 "
  <<"1","4",":","3","0"," ">>,
  \* "13pm "
  <<"1","3","p","m"," ">>,
  \* "  "
  <<" "," ">> >>

\* whole inputs: the examples of the specification and some of its edge cases
Examples == {
  \* "John Doe 7205551212 wants estimate Tuesday at 3pm"
  <<"J","o","h","n"," ","D","o","e"," ","7","2","0","5","5","5","1","2","1","2"," ","w","a","n","t","s"," ","e","s","t","i","m","a","t","e"," ","T","u","e","s","d","a","y"," ","a","t"," ","3","p","m">>,
  \* "call Bob tomorrow at 2:75pm"
  <<"c","a","l","l"," ","B","o","b"," ","t","o","m","o","r","r","o","w"," ","a","t"," ","2",":","7","5","p","m">>,
  \* "tomorrow or Friday 2/30/26 \t"
  <<"t","o","m","o","r","r","o","w"," ","o","r"," ","F","r","i","d","a","y"," ","2","/","3","0","/","2","6"," ","\t">>,
  \* "Sarah Smith Tuesday at 3pm"
  <<"S","a","r","a","h"," ","S","m","i","t","h"," ","T","u","e","s","d","a","y"," ","a","t"," ","3","p","m">>,
  \* "meet Friday then tomorrow 12:30 PM"
  <<"m","e","e","t"," ","F","r","i","d","a","y"," ","t","h","e","n"," ","t","o","m","o","r","r","o","w"," ","1","2",":","3","0"," ","P","M">>,
  \* "see you saturday 24:00"
  <<"s","e","e"," ","y","o","u"," ","s","a","t","u","r","d","a","y"," ","2","4",":","0","0">>,
  \* "\t \n"
  <<"\t"," ","\n">> }

MaxFragments == 2

RECURSIVE concat(_)
concat(ws) == IF ws = <<>> THEN <<>> ELSE Vocabulary[Head(ws)] \o concat(Tail(ws))

Inputs ==
  Examples \cup
  UNION {{concat(ws) : ws \in [1..n -> DOMAIN Vocabulary]} : n \in 0..MaxFragments}

\* the inputs of the remote-first parser
RemoteInputs == {concat(<<w>>) : w \in DOMAIN Vocabulary} \cup {<<>>}

\* a clock reading: the local date and time, and the zone's getTimezoneOffset()
Sunday2025 == DaysFromCivil(2025, 12, 28)
Clocks ==
  {[now |-> [days |-> Sunday2025 + k, h |-> 14, mi |-> 30, s |-> 25, ms |-> 123], tz |-> 480] :
     k \in 0..6}
  \cup {[now |-> [days |-> DaysFromCivil(2025, 12, 31), h |-> 23, mi |-> 50, s |-> 0, ms |-> 0],
         tz |-> 0 - 330],
        [now |-> [days |-> DaysFromCivil(2024, 2, 28), h |-> 9, mi |-> 0, s |-> 0, ms |-> 0],
         tz |-> 300]}

\* the clock a quarter of an hour later
later(date) ==
  [setHours(date, date.h, date.mi + 15) EXCEPT !.s = date.s, !.ms = date.ms]

MaxTicks == 1

(***************************************************************************)
(* The state machine.                                                      *)
(*   pc        where the call is: "idle", "returned" (the synchronous      *)
(*             parser returned), "fetching" (the request is in flight),    *)
(*             "responded" (fetch resolved), "done" (the promise settled)  *)
(*   text      the argument of the call                                    *)
(*   now, tz   the clock: what new Date() returns, and the zone            *)
(*   ticks     how often the clock advanced while the call was suspended   *)
(*   requests  the number of fetch calls issued                            *)
(*   response  what fetch resolved with                                    *)
(*   result    the value returned (the value the promise resolved with)    *)
(*   steps     the local variables of the rule-based extractor's run, when *)
(*             it ran past its guard                                       *)
(*   fallbacks the number of calls of fallbackParser                       *)
(*   outcome   "pending", "resolved" or "rejected"                         *)
(*   via       the path that produced the result                           *)
(* The state of the App component (useState):                              *)
(*   appointments   the list of stored appointments                        *)
(*   inputText      the content of the text area                           *)
(*   selectedEvent  the appointment of the details dialog: a sequence      *)
(*                  that is empty (null) or holds one appointment          *)
(*   isModalOpen    whether the details dialog is open                     *)
(* The state of the CRMView component, its prop and the browser's store:   *)
(*   mounted           the file the mounted component comes from, "none"   *)
(*                     before it is mounted                                *)
(*   clients, isAddModalOpen, isDetailModalOpen, selectedClient, formData  *)
(*                     the component's useState values; selectedClient is  *)
(*                     empty (null) or holds one client; isDetailModalOpen *)
(*                     is isEditModalOpen in src/unnamed/part_003          *)
(*   selectedClientId  the prop: a string, empty when undefined            *)
(*   storage           the item of localStorage under STORAGE_KEY          *)
(*   uuids             the number of crypto.randomUUID() calls             *)
(*   saves             the number of saveClients calls                     *)
(*   toast             the toast the last event raised, "none" when it     *)
(*                     raised none                                         *)
(***************************************************************************)
VARIABLES pc, text, now, tz, ticks, requests, response, result, steps, fallbacks, outcome, via,
          appointments, inputText, selectedEvent, isModalOpen,
          mounted, clients, isAddModalOpen, isDetailModalOpen, selectedClient, formData,
          selectedClientId, storage, uuids, saves, toast

crmVars == <<mounted, clients, isAddModalOpen, isDetailModalOpen, selectedClient, formData,
             selectedClientId, storage, uuids, saves, toast>>

appVars == <<appointments, inputText, selectedEvent, isModalOpen>>
callVars == <<pc, text, requests, response, result, steps, fallbacks, outcome, via>>
viewVars == <<appVars, crmVars>>
vars == <<pc, text, now, tz, ticks, requests, response, result, steps, fallbacks, outcome, via,
          viewVars>>

\* useState of formData, and what resetForm sets
Lead == <<"L","e","a","d">>
EmptyForm == [name |-> <<>>, phone |-> <<>>, status |-> Lead, notes |-> <<>>]

\* localStorage.getItem(STORAGE_KEY) when nothing is stored: null
NoItem == [present |-> FALSE, value |-> <<>>]

\* the two appointments App starts with
SeededAppointments ==
  << [id |-> <<"1">>,
      name |-> <<"S","a","r","a","h"," ","J","o","h","n","s","o","n">>,
      phone |-> <<"7","2","0","-","5","5","5","-","1","2","3","4">>,
      details |-> <<"w","a","n","t","s"," ","k","i","t","c","h","e","n"," ","r","e","m","o","d","e","l"," ","e","s","t","i","m","a","t","e">>,
      datetime |-> <<"2","0","2","5","-","1","2","-","1","2","T","1","4",":","0","0",":","0","0">>],
     [id |-> <<"2">>,
      name |-> <<"M","i","k","e"," ","C","h","e","n">>,
      phone |-> <<"3","0","3","-","5","5","5","-","5","6","7","8">>,
      details |-> <<"b","a","t","h","r","o","o","m"," ","i","n","s","p","e","c","t","i","o","n"," ","f","o","l","l","o","w","-","u","p">>,
      datetime |-> <<"2","0","2","5","-","1","2","-","1","5","T","1","0",":","3","0",":","0","0">>] >>

Init ==
  /\ pc = "idle"
  /\ text = <<>>
  /\ \E c \in Clocks : now = c.now /\ tz = c.tz
  /\ ticks = 0
  /\ requests = 0
  /\ response = BaseResponse
  /\ result = NullResult
  /\ steps = NoSteps
  /\ fallbacks = 0
  /\ outcome = "pending"
  /\ via = "none"
  /\ appointments = SeededAppointments
  /\ inputText = <<>>
  /\ selectedEvent = <<>>
  /\ isModalOpen = FALSE
  /\ mounted = "none"
  /\ clients = <<>>
  /\ isAddModalOpen = FALSE
  /\ isDetailModalOpen = FALSE
  /\ selectedClient = <<>>
  /\ formData = EmptyForm
  /\ selectedClientId = <<>>
  /\ storage = NoItem
  /\ uuids = 0
  /\ saves = 0
  /\ toast = "none"

\* the promise settles with r (an [outcome, value] pair) on path v
Settle(t, r, v) ==
  /\ text' = t
  /\ result' = r.value
  /\ steps' = r.steps
  /\ fallbacks' = fallbacks + r.calls
  /\ outcome' = r.outcome
  /\ via' = v
  /\ pc' = "done"

\* the synchronous parseAppointment(text)
SyncParse(t) ==
  /\ pc = "idle"
  /\ text' = t
  /\ \E run \in {parseAppointmentRun(t, now, tz)} : result' = run.value /\ steps' = run.steps
  /\ outcome' = "resolved"
  /\ via' = "sync"
  /\ pc' = "returned"
  /\ UNCHANGED <<now, tz, ticks, requests, response, fallbacks>>
  /\ UNCHANGED viewVars

\* line 9: an input that is empty after trimming returns null at once
AsyncEmpty(t) ==
  /\ pc = "idle"
  /\ trim(t) = <<>>
  /\ Settle(t, [outcome |-> "resolved", value |-> NullResult, steps |-> NoSteps, calls |-> 0],
            "empty")
  /\ UNCHANGED <<now, tz, ticks, requests, response>>
  /\ UNCHANGED viewVars

\* lines 12-17: no API key, the fallback parser answers
AsyncNoKey(t) ==
  /\ pc = "idle"
  /\ trim(t) # <<>>
  /\ Settle(t, earlyFallback(t, now, tz), "nokey")
  /\ UNCHANGED <<now, tz, ticks, requests, response>>
  /\ UNCHANGED viewVars

\* lines 19-71: with an API key the request is sent and the call is suspended
AsyncFetch(t) ==
  /\ pc = "idle"
  /\ trim(t) # <<>>
  /\ text' = t
  /\ requests' = requests + 1
  /\ pc' = "fetching"
  /\ UNCHANGED <<now, tz, ticks, response, result, steps, fallbacks, outcome, via>>
  /\ UNCHANGED viewVars

\* the clock advances while the call is suspended
Tick ==
  /\ pc \in {"fetching", "responded"}
  /\ ticks < MaxTicks
  /\ now' = later(now)
  /\ ticks' = ticks + 1
  /\ UNCHANGED <<pc, text, tz, requests, response, result, steps, fallbacks, outcome, via>>
  /\ UNCHANGED viewVars

\* a variant in which a rejected fetch is tried again
FetchRejectsRetry ==
  /\ pc = "fetching"
  /\ requests' = requests + 1
  /\ UNCHANGED <<pc, text, now, tz, ticks, response, result, steps, fallbacks, outcome, via>>
  /\ UNCHANGED viewVars

\* fetch rejects (network error, timeout): the catch block runs
FetchRejects ==
  /\ pc = "fetching"
  /\ Settle(text, catchHandler(text, now, tz), "fetch-rejected")
  /\ UNCHANGED <<now, tz, ticks, requests, response>>
  /\ UNCHANGED viewVars

\* fetch resolves with a response
FetchResolves(r) ==
  /\ pc = "fetching"
  /\ response' = r
  /\ pc' = "responded"
  /\ UNCHANGED <<text, now, tz, ticks, requests, result, steps, fallbacks, outcome, via>>
  /\ UNCHANGED viewVars

\* lines 75-79: a status outside 200-299
StatusNotOk ==
  /\ pc = "responded"
  /\ ~response.ok
  /\ Settle(text, earlyFallback(text, now, tz), "status")
  /\ UNCHANGED <<now, tz, ticks, requests, response>>
  /\ UNCHANGED viewVars

\* line 81: response.json() rejects, the catch block runs
BodyNotJson ==
  /\ pc = "responded"
  /\ response.ok /\ ~response.bodyJson
  /\ Settle(text, catchHandler(text, now, tz), "body")
  /\ UNCHANGED <<now, tz, ticks, requests, response>>
  /\ UNCHANGED viewVars

\* lines 84-89: no message content
NoContent ==
  /\ pc = "responded"
  /\ response.ok /\ response.bodyJson /\ ~response.hasContent
  /\ Settle(text, earlyFallback(text, now, tz), "nocontent")
  /\ UNCHANGED <<now, tz, ticks, requests, response>>
  /\ UNCHANGED viewVars

\* lines 93-105: JSON.parse throws, or the content is the JSON null and reading
\* parsed.phone throws; the catch block runs
ContentThrows ==
  /\ pc = "responded"
  /\ response.ok /\ response.bodyJson /\ response.hasContent
  /\ ~response.parses \/ response.parsed.isNull
  /\ Settle(text, catchHandler(text, now, tz), "parse")
  /\ UNCHANGED <<now, tz, ticks, requests, response>>
  /\ UNCHANGED viewVars

\* lines 93-122: the content (its ``` fence removed) parses to an object
RemoteSuccess ==
  /\ pc = "responded"
  /\ response.ok /\ response.bodyJson /\ response.hasContent
  /\ response.parses /\ ~response.parsed.isNull
  /\ Settle(text, [outcome |-> "resolved", value |-> remoteResult(response.parsed, now, tz),
                    steps |-> NoSteps, calls |-> 0], "remote")
  /\ UNCHANGED <<now, tz, ticks, requests, response>>
  /\ UNCHANGED viewVars

Next ==
  \/ \E t \in Inputs : SyncParse(t)
  \/ \E t \in RemoteInputs : AsyncEmpty(t)
  \/ \E t \in RemoteInputs : AsyncNoKey(t)
  \/ \E t \in RemoteInputs : AsyncFetch(t)
  \/ Tick
  \/ FetchRejects
  \/ \E r \in Responses : FetchResolves(r)
  \/ StatusNotOk
  \/ BodyNotJson
  \/ NoContent
  \/ ContentThrows
  \/ RemoteSuccess

Spec == Init /\ [][Next]_vars

(***************************************************************************)
(* The sub-extractors on inputs built for them: the synchronous            *)
(* parseAppointment applied to families of texts that exercise one         *)
(* sub-extractor each.                                                     *)
(***************************************************************************)
\* every phone number of ten digits drawn from PhoneDigits, in the canonical form
PhoneDigits == {"0", "9"}
DigitRuns == [1..10 -> PhoneDigits]
CanonicalPhones == {formatPhone(d) : d \in DigitRuns}

\* a bare run of n digits, alone and between two words
MaxRun == 12
digitRun(n) == [i \in 1..n |-> DigitSeq[(i % 10) + 1]]
DigitRunInputs ==
  UNION {{digitRun(n), <<"c","a","l","l"," ">> \o digitRun(n) \o <<" ","n","o","w">>} :
           n \in 0..MaxRun}

\* texts that do not begin with a capitalised word but hold capitalised words later,
\* and texts that do begin with one
CallBobTomorrow == <<"c","a","l","l"," ","B","o","b"," ","t","o","m","o","r","r","o","w">>
NameInputs ==
  {CallBobTomorrow,
   <<"b","o","b"," ","S","m","i","t","h"," ","J","o","n","e","s">>,
   <<"7","2","0","5","5","5","1","2","1","2"," ","J","o","h","n"," ","D","o","e">>,
   <<"J","O","H","N"," ","D","o","e">>,
   <<"A"," ","B","o","b">>,
   <<"j","O","h","n"," ","D","o","e">>,
   <<"-","J","o","h","n">>,
   <<"Q">>,
   <<" ","J","o","h","n"," ","D","o","e"," ","c","a","l","l","s"," ","B","o","b">>}

\* capitalised words separated by one space, by two, by a tab, by a newline
NameShapeInputs ==
  {<<"J","o","h","n"," ","D","o","e"," ","S","m","i","t","h"," ","c","a","l","l","s">>,
   <<"J","o","h","n"," "," ","D","o","e"," ","c","a","l","l","s">>,
   <<"J","o","h","n","\t","D","o","e"," ","c","a","l","l","s">>,
   <<"J","o","h","n","\n","D","o","e">>,
   <<"J","o","h","n"," ","D","o","e"," "," ","S","m","i","t","h">>,
   <<"J","o","h","n"," ","d","o","e">>,
   <<"J","o","h","n"," ","D","o","e","7">>,
   <<"J","o","h","n"," ","D","O","E">>,
   <<"J","o","h","n","D","o","e"," ","x">>}

\* texts in which the name or the phone number is written more than once
RepeatInputs ==
  {<<"7","2","0","5","5","5","1","2","1","2"," ","7","2","0","5","5","5","1","2","1","2">>,
   <<"J","o","h","n"," ","D","o","e"," ","7","2","0","-","5","5","5","-","1","2","1","2"," ","o","r"," ","7","2","0","-","5","5","5","-","1","2","1","2">>,
   <<"B","o","b"," ","a","n","d"," ","B","o","b"," ","t","o","m","o","r","r","o","w">>,
   <<"A","n","n"," ","5","5","5","1","2","3","4","5","6","7"," ","A","n","n"," ","5","5","5","1","2","3","4","5","6","7"," ","5","5","5","1","2","3","4","5","6","7">>,
   <<"c","a","l","l"," ","(","3","0","3",")"," ","5","5","5","-","1","2","3","4"," ","n","o","t"," ","3","0","3","5","5","5","1","2","3","4">>,
   <<"0","0","0","0","0","0","0","0","0","0","0","0","0">>}

\* 12-hour times: the hour h written with at least w digits, the minute mm when
\* withMinute, then gap and the suffix
MeridiemForms == {<<"a","m">>, <<"p","m">>, <<"A","M">>, <<"P","m">>}
Time12Cases ==
  [h : {0, 1, 9, 11, 12, 13, 99}, w : {1, 2}, withMinute : BOOLEAN, mm : {0, 5, 30, 75},
   gap : {<<>>, <<" ">>}, suffix : MeridiemForms]
time12Text(c) ==
  <<"a","t"," ">> \o pad(c.h, c.w) \o
  (IF c.withMinute THEN <<":">> \o pad(c.mm, 2) ELSE <<>>) \o c.gap \o c.suffix
Time12Inputs == {time12Text(c) : c \in Time12Cases}

\* 24-hour times after a word or after a date cue, and texts that hold an H:MM token
\* and a 12-hour time
Time24Cases ==
  [h : {0, 9, 14, 23, 24, 99}, w : {1, 2}, mm : {0, 30, 59, 60, 75},
   before : {<<"a","t"," ">>, <<"t","o","m","o","r","r","o","w"," ">>}]
time24Text(c) == c.before \o pad(c.h, c.w) \o <<":">> \o pad(c.mm, 2)
Time24Inputs == {time24Text(c) : c \in Time24Cases}
BothTimesInputs ==
  {<<"1","4",":","3","0"," ","t","h","e","n"," ","3","p","m">>,
   <<"2","4",":","0","0"," ","o","r"," ","5"," ","A","M">>,
   <<"3","p","m"," ","n","o","t"," ","1","4",":","3","0">>,
   <<"2","5",":","0","0"," ","n","o","t"," ","1","4",":","3","0">>,
   <<"1","4",":","3","0"," ","n","o","t"," ","1","6",":","0","0">>,
   <<"F","r","i","d","a","y"," ","c","a","l","l"," ","f","r","i","d","a","y"," ","1","2",":","7","5">>}

\* numeric dates: month, day and the year as it is written (empty: no year)
WrittenYears ==
  {<<>>, <<"2","6">>, <<"9","9">>, <<"0","0">>, <<"2","0","2">>, <<"0","0","9","9">>,
   <<"2","0","2","4">>, <<"1","9","9","9">>, <<"9","9","9","9">>}
NumericCases == [month : {0, 1, 2, 12, 13, 99}, day : {0, 1, 29, 30, 31, 99}, year : WrittenYears]
numericText(c) ==
  <<"o","n"," ">> \o pad(c.month, 1) \o <<"/">> \o pad(c.day, 1) \o
  (IF c.year = <<>> THEN <<>> ELSE <<"/">> \o c.year)
NumericInputs == {numericText(c) : c \in NumericCases}

\* texts that hold the word tomorrow in several letter cases, inside longer words,
\* misspelt, and at the place the name is taken from
TomorrowInputs ==
  {<<"v","i","s","i","t"," ","t","o","m","o","r","r","o","w","l","a","n","d">>,
   <<"s","e","e"," ","y","o","u"," ","T","o","M","o","R","r","O","w">>,
   <<"T","O","M","O","R","R","O","W"," ","3","p","m">>,
   <<"c","a","l","l",":"," ","p","r","e","t","o","m","o","r","r","o","w","s"," ","a","t"," ","1","4",":","3","0">>,
   <<"T","o","m","o","r","r","o","w"," ","a","t"," ","n","o","o","n">>,
   <<"B","o","b"," ","T","o","m","o","r","r","o","w">>,
   <<"t","o","m","o","r","o","w"," ","a","t"," ","5","p","m">>,
   <<"t","o","m","o","r","r","o","w"," ","t","o","m","o","r","r","o","w">>,
   <<"t","o"," ","m","o","r","r","o","w"," ","1","3","p","m">>,
   <<"t","o","m","o","r","r","o","w","l","a","n","d"," ","1","3","p","m">>,
   <<"x"," ","T","O","M","O","R","R","O","W","L","A","N","D"," ","5","5","5","-","1","2","3","-","4","5","6","7">>,
   <<"t","o","m","o","r","r","o","w">>}

\* texts in which digits of another number stand next to a phone number
PhoneTokenInputs ==
  {<<"1","2","/","2","0","/","2","0","2","5"," ","3","0","3","5","5","5","1","2","3","4">>,
   <<"r","o","o","m"," ","1","2","3","4"," ","5","5","5","1","2","3","4">>,
   <<"i","d"," ","9","9"," ","3","0","3"," ","5","5","5"," ","1","2","3","4"," ","o","k">>,
   <<"c","a","l","l"," ","3","0","3","-","5","5","5","-","1","2","3","4"," ","o","n"," ","1","2","/","2","0","/","2","0","2","5">>,
   <<"x","1"," ","(","3","0","3",")","5","5","5","-","1","2","3","4","5">>}

ExtractorInputs ==
  CanonicalPhones \cup DigitRunInputs \cup NameInputs \cup NameShapeInputs \cup RepeatInputs
    \cup Time12Inputs \cup Time24Inputs \cup BothTimesInputs \cup NumericInputs
    \cup TomorrowInputs \cup PhoneTokenInputs

ExtractorNext == \E t \in ExtractorInputs : SyncParse(t)

ExtractorSpec == Init /\ [][ExtractorNext]_vars

(***************************************************************************)
(* The App component.  Each handler is one step: the state it sets is the  *)
(* state of the next render, and the handlers of that render see it.       *)
(* currentMonth, the month the calendar shows, is no part of appointments, *)
(* of the dialog or of the handlers below and is left out.                 *)
(***************************************************************************)
\* Date.now().toString(): the milliseconds since 1970-01-01T00:00:00Z in decimal, put
\* together from the day number and the milliseconds of the UTC day
dateNowString(date, tzOffset) ==
  LET total   == date.h * 60 + date.mi + tzOffset
      msOfDay == ((total % 1440) * 60 + date.s) * 1000 + date.ms
      hi      == (date.days + total \div 1440) * 864 + msOfDay \div 100000
  IN  IF hi = 0 THEN pad(msOfDay % 100000, 1)
      ELSE pad(hi, 1) \o pad(msOfDay % 100000, 5)

\* the clock one millisecond later
laterMs(date) ==
  LET t == ((date.h * 60 + date.mi) * 60 + date.s) * 1000 + date.ms + 1
  IN  [days |-> date.days + t \div 86400000,
       h    |-> (t % 86400000) \div 3600000,
       mi   |-> (t \div 60000) % 60,
       s    |-> (t \div 1000) % 60,
       ms   |-> t % 1000]

\* { id, ...parsed }
newAppointment(id, parsed) ==
  [id |-> id, name |-> parsed.name, phone |-> parsed.phone, details |-> parsed.details,
   datetime |-> parsed.datetime]

\* what the user types into the text area
AppTexts ==
  {<<>>, <<" "," ">>,
   <<"B","o","b"," ","3","p","m">>,
   <<"c","a","l","l"," ","t","o","m","o","r","r","o","w">>}

MaxAppointments == 4
MaxAppTicks == 1

\* onChange of the text area
onChange(t) ==
  /\ inputText' = t
  /\ UNCHANGED <<appointments, selectedEvent, isModalOpen, now, tz, ticks, callVars, crmVars>>

\* the id handleParse gives
parseId(date, tzOffset) == dateNowString(date, tzOffset)

\* setAppointments([...appointments, newAppointment]); setInputText('')
addParsed(parsed) ==
  IF parsed.isNull THEN UNCHANGED <<appointments, inputText>>
  ELSE /\ appointments' = Append(appointments, newAppointment(parseId(now, tz), parsed))
       /\ inputText' = <<>>

handleParse ==
  /\ Len(appointments) < MaxAppointments
  /\ IF trim(inputText) = <<>> THEN UNCHANGED <<appointments, inputText>>
     ELSE addParsed(parseAppointment(inputText, now, tz))
  /\ UNCHANGED <<selectedEvent, isModalOpen, now, tz, ticks, callVars, crmVars>>

\* the ids of the Delete buttons on the page: one per row of the list, and the one of
\* the dialog
DeleteButtons ==
  {appointments[i].id : i \in 1..Len(appointments)}
    \cup (IF isModalOpen /\ selectedEvent # <<>> THEN {selectedEvent[1].id} ELSE {})

\* a variant of handleDelete that leaves the dialog as it is
handleDeleteKeepsDialog(id) ==
  /\ appointments' = SelectSeq(appointments, LAMBDA apt : apt.id # id)
  /\ UNCHANGED <<inputText, selectedEvent, isModalOpen, now, tz, ticks, callVars, crmVars>>

handleDelete(id) ==
  /\ appointments' = SelectSeq(appointments, LAMBDA apt : apt.id # id)
  /\ isModalOpen' = FALSE
  /\ UNCHANGED <<inputText, selectedEvent, now, tz, ticks, callVars, crmVars>>

handleEventClick(appointment) ==
  /\ selectedEvent' = <<appointment>>
  /\ isModalOpen' = TRUE
  /\ UNCHANGED <<appointments, inputText, now, tz, ticks, callVars, crmVars>>

\* onOpenChange of the dialog: the open dialog is dismissed
onOpenChange(open) ==
  /\ isModalOpen
  /\ isModalOpen' = open
  /\ UNCHANGED <<appointments, inputText, selectedEvent, now, tz, ticks, callVars, crmVars>>

\* a millisecond passes between two events
AppTick ==
  /\ ticks < MaxAppTicks
  /\ now' = laterMs(now)
  /\ ticks' = ticks + 1
  /\ UNCHANGED <<tz, callVars, viewVars>>

AppNext ==
  \/ \E t \in AppTexts : onChange(t)
  \/ handleParse
  \/ \E id \in DeleteButtons : handleDelete(id)
  \/ \E i \in 1..Len(appointments) : handleEventClick(appointments[i])
  \/ onOpenChange(FALSE)
  \/ AppTick

\* App starts on the last day of a year, shortly before midnight
AppInit == Init /\ now.days = DaysFromCivil(2025, 12, 31) /\ now.h = 23

AppSpec == AppInit /\ [][AppNext]_vars

(***************************************************************************)
(* The CRMView component: the client registry kept in localStorage.        *)
(***************************************************************************)
\* JSON.stringify of a string: the characters that JSON escapes, between quotes
jsonEscape(c) ==
  IF c = "\"" THEN <<"\\", "\"">>
  ELSE IF c = "\\" THEN <<"\\", "\\">>
  ELSE IF c = "\n" THEN <<"\\", "n">>
  ELSE IF c = "\t" THEN <<"\\", "t">>
  ELSE <<c>>

RECURSIVE jsonChars(_)
jsonChars(s) == IF s = <<>> THEN <<>> ELSE jsonEscape(Head(s)) \o jsonChars(Tail(s))

jsonString(s) == <<"\"">> \o jsonChars(s) \o <<"\"">>

jsonMember(key, s) == jsonString(key) \o <<":">> \o jsonString(s)

\* JSON.stringify of a Client: its members in the order id, name, phone, status, notes
jsonClient(c) ==
  <<"{">> \o jsonMember(<<"i","d">>, c.id) \o <<",">>
          \o jsonMember(<<"n","a","m","e">>, c.name) \o <<",">>
          \o jsonMember(<<"p","h","o","n","e">>, c.phone) \o <<",">>
          \o jsonMember(<<"s","t","a","t","u","s">>, c.status) \o <<",">>
          \o jsonMember(<<"n","o","t","e","s">>, c.notes) \o <<"}">>

RECURSIVE jsonElements(_)
jsonElements(list) ==
  IF list = <<>> THEN <<>>
  ELSE IF Len(list) = 1 THEN jsonClient(Head(list))
  ELSE jsonClient(Head(list)) \o <<",">> \o jsonElements(Tail(list))

\* JSON.stringify(updatedClients)
stringify(list) == <<"[">> \o jsonElements(list) \o <<"]">>

\* what an earlier session may have left in the store: nothing, a text that is not
\* JSON, or the serialisation of a list of clients
Completed == <<"C","o","m","p","l","e","t","e","d">>
StoredClientA == [id |-> <<"a">>, name |-> <<"A","n","n">>, phone |-> <<"5","5","5">>, status |-> Lead, notes |-> <<>>]
StoredClientB == [id |-> <<"b">>, name |-> <<"B","\"","o">>, phone |-> <<"5","5","5">>, status |-> Lead, notes |-> <<>>]
StoredLists == {<<StoredClientA, StoredClientB>>}
NotJson == <<"[","{">>
StoredItems ==
  {NoItem} \cup {[present |-> TRUE, value |-> v] : v \in {NotJson} \cup {stringify(l) : l \in StoredLists}}

\* JSON.parse of a stored text: the list it is the serialisation of; it throws on a text
\* that is none
JSONParse(s) ==
  IF \E l \in StoredLists : stringify(l) = s
  THEN [ok |-> TRUE, value |-> CHOOSE l \in StoredLists : stringify(l) = s]
  ELSE [ok |-> FALSE, value |-> <<>>]

\* loadClients (lines 64-74), run by the effect of lines 51-53
loadClients(item) ==
  IF item.present /\ item.value # <<>>
  THEN IF JSONParse(item.value).ok THEN JSONParse(item.value).value ELSE <<>>
  ELSE <<>>

\* clients.find(c => c.id === id): the position of the first such client, 0 when none
findClient(list, id) == leastOrZero({i \in 1..Len(list) : list[i].id = id})

\* the form openDetailModal fills in (lines 135-140)
formOf(client) ==
  [name |-> client.name, phone |-> client.phone, status |-> client.status, notes |-> client.notes]

\* the position of the client the effect of lines 55-62 opens the dialog for, 0 when it
\* does nothing; src/unnamed/part_003 has no such effect
effectClient(component, list, id) ==
  IF component = "CRMView.tsx" /\ id # <<>> /\ Len(list) > 0 THEN findClient(list, id) ELSE 0

\* the render that follows an event: detail, selected and form are the values the
\* handler set, and the effect of lines 55-62, which runs when selectedClientId or
\* clients changed, calls openDetailModal for the client it finds
afterEffect(i, list, detail, selected, form) ==
  /\ isDetailModalOpen' = IF i > 0 THEN TRUE ELSE detail
  /\ selectedClient' = IF i > 0 THEN <<list[i]>> ELSE selected
  /\ formData' = IF i > 0 THEN formOf(list[i]) ELSE form

\* what the CRMView actions leave alone
outsideCRM == <<now, tz, ticks, callVars, appVars>>

\* the component is mounted: both effects run, the first loads the clients
Mount(component, item, id) ==
  /\ mounted = "none"
  /\ mounted' = component
  /\ storage' = item
  /\ selectedClientId' = id
  /\ clients' = loadClients(item)
  /\ afterEffect(effectClient(component, loadClients(item), id), loadClients(item),
                 FALSE, <<>>, EmptyForm)
  /\ UNCHANGED <<isAddModalOpen, uuids, saves, outsideCRM>>
  /\ toast' = "none"

\* the parent passes another selectedClientId
selectedClientIdChange(id) ==
  /\ mounted = "CRMView.tsx"
  /\ id # selectedClientId
  /\ selectedClientId' = id
  /\ afterEffect(effectClient(mounted, clients, id), clients,
                 isDetailModalOpen, selectedClient, formData)
  /\ UNCHANGED <<mounted, clients, isAddModalOpen, storage, uuids, saves, outsideCRM>>
  /\ toast' = "none"

\* a variant of saveClients that writes the list as it was before the change
saveClientsStale(updatedClients) ==
  /\ storage' = [present |-> TRUE, value |-> stringify(clients)]
  /\ clients' = updatedClients
  /\ saves' = saves + 1

\* saveClients (lines 76-79)
saveClients(updatedClients) ==
  /\ storage' = [present |-> TRUE, value |-> stringify(updatedClients)]
  /\ clients' = updatedClients
  /\ saves' = saves + 1

MaxSaves == 2

\* crypto.randomUUID(): an id no client has yet
randomUUID(n) == <<"u">> \o pad(n + 1, 1)

\* the page behind an open dialog takes no clicks: the Dialog components are modal
PageClickable == mounted # "none" /\ ~isAddModalOpen /\ ~isDetailModalOpen

\* the Add Client button
openAddModal ==
  /\ PageClickable
  /\ isAddModalOpen' = TRUE
  /\ UNCHANGED <<mounted, clients, isDetailModalOpen, selectedClient, formData, selectedClientId,
                 storage, uuids, saves, outsideCRM>>
  /\ toast' = "none"

\* onOpenChange of the Add Client dialog
onAddOpenChange(open) ==
  /\ isAddModalOpen
  /\ isAddModalOpen' = open
  /\ formData' = IF ~open THEN EmptyForm ELSE formData
  /\ UNCHANGED <<mounted, clients, isDetailModalOpen, selectedClient, selectedClientId,
                 storage, uuids, saves, outsideCRM>>
  /\ toast' = "none"

\* the form is on the page: in the Add Client dialog and, when a client is selected, in
\* the Client Details dialog
FormShown == isAddModalOpen \/ (isDetailModalOpen /\ selectedClient # <<>>)

\* what the user types and chooses
FormNames == {<<" ">>, <<" ","A","n","n"," ">>}
FormPhones == {<<"5","5","5"," ">>}
FormStatuses == {Completed}
FormNotes == {<<" ","n","\n">>}

onFormChange(form) ==
  /\ FormShown
  /\ formData' = form
  /\ UNCHANGED <<mounted, clients, isAddModalOpen, isDetailModalOpen, selectedClient,
                 selectedClientId, storage, uuids, saves, outsideCRM>>
  /\ toast' = "none"

onNameChange(v) == onFormChange([formData EXCEPT !.name = v])
onPhoneChange(v) == onFormChange([formData EXCEPT !.phone = v])
onStatusChange(v) == onFormChange([formData EXCEPT !.status = v])
onNotesChange(v) == onFormChange([formData EXCEPT !.notes = v])

\* a variant of the check without trim()
formRejectedUntrimmed(form) == form.name = <<>> \/ form.phone = <<>>

\* lines 82-85 and 103-106
formRejected(form) == trim(form.name) = <<>> \/ trim(form.phone) = <<>>

rejectForm ==
  /\ toast' = "Name and phone are required"
  /\ UNCHANGED <<clients, isAddModalOpen, isDetailModalOpen, selectedClient, formData,
                 storage, uuids, saves>>

\* lines 87-93
newClient(id, form) ==
  [id |-> id, name |-> trim(form.name), phone |-> trim(form.phone), status |-> form.status,
   notes |-> trim(form.notes)]

\* lines 95-99, and the render that follows
addClient(updatedClients) ==
  /\ saveClients(updatedClients)
  /\ uuids' = uuids + 1
  /\ toast' = "Client added successfully"
  /\ isAddModalOpen' = FALSE
  /\ afterEffect(effectClient(mounted, updatedClients, selectedClientId), updatedClients,
                 isDetailModalOpen, selectedClient, EmptyForm)

handleAddClient ==
  /\ isAddModalOpen
  /\ saves < MaxSaves
  /\ IF formRejected(formData) THEN rejectForm
     ELSE addClient(Append(clients, newClient(randomUUID(uuids), formData)))
  /\ UNCHANGED <<mounted, selectedClientId, outsideCRM>>

\* lines 110-121: clients.map(...)
updatedWith(list, id, form) ==
  [i \in 1..Len(list) |->
     IF list[i].id = id
     THEN [list[i] EXCEPT !.name = trim(form.name), !.phone = trim(form.phone),
                          !.status = form.status, !.notes = trim(form.notes)]
     ELSE list[i]]

\* updatedClients.find(c => c.id === selectedClient.id) || null
foundOrNull(list, id) == IF findClient(list, id) > 0 THEN <<list[findClient(list, id)]>> ELSE <<>>

\* lines 123-125, and the render that follows
updateClient(updatedClients, id) ==
  /\ saveClients(updatedClients)
  /\ toast' = "Client updated successfully"
  /\ afterEffect(effectClient(mounted, updatedClients, selectedClientId), updatedClients,
                 isDetailModalOpen, foundOrNull(updatedClients, id), formData)
  /\ UNCHANGED <<isAddModalOpen, uuids>>

\* the Save Changes button of the Client Details dialog
handleUpdateClient ==
  /\ mounted = "CRMView.tsx"
  /\ isDetailModalOpen /\ selectedClient # <<>>
  /\ saves < MaxSaves
  /\ IF formRejected(formData) THEN rejectForm
     ELSE updateClient(updatedWith(clients, selectedClient[1].id, formData), selectedClient[1].id)
  /\ UNCHANGED <<mounted, selectedClientId, outsideCRM>>

\* src/unnamed/part_003 lines 96-100
editClient(updatedClients) ==
  /\ saveClients(updatedClients)
  /\ toast' = "Client updated successfully"
  /\ formData' = EmptyForm
  /\ isDetailModalOpen' = FALSE
  /\ selectedClient' = <<>>
  /\ UNCHANGED <<isAddModalOpen, uuids>>

\* the Save Changes button of the edit dialog of src/unnamed/part_003
handleEditClient ==
  /\ mounted = "part_003"
  /\ isDetailModalOpen /\ selectedClient # <<>>
  /\ saves < MaxSaves
  /\ IF formRejected(formData) THEN rejectForm
     ELSE editClient(updatedWith(clients, selectedClient[1].id, formData))
  /\ UNCHANGED <<mounted, selectedClientId, outsideCRM>>

\* lines 127-131, and the render that follows
deleteClient(updatedClients) ==
  /\ saveClients(updatedClients)
  /\ toast' = "Client deleted successfully"
  /\ afterEffect(effectClient(mounted, updatedClients, selectedClientId), updatedClients,
                 isDetailModalOpen, selectedClient, formData)

handleDeleteClient(id) ==
  /\ PageClickable
  /\ saves < MaxSaves
  /\ deleteClient(SelectSeq(clients, LAMBDA client : client.id # id))
  /\ UNCHANGED <<mounted, isAddModalOpen, selectedClientId, uuids, outsideCRM>>

\* lines 133-142: a click on a client's name or on its Edit button
openDetailModal(client) ==
  /\ PageClickable
  /\ selectedClient' = <<client>>
  /\ formData' = formOf(client)
  /\ isDetailModalOpen' = TRUE
  /\ UNCHANGED <<mounted, clients, isAddModalOpen, selectedClientId, storage, uuids, saves,
                 outsideCRM>>
  /\ toast' = "none"

\* onOpenChange of the Client Details dialog (lines 338-344)
onDetailOpenChange(open) ==
  /\ isDetailModalOpen
  /\ isDetailModalOpen' = open
  /\ formData' = IF ~open THEN EmptyForm ELSE formData
  /\ selectedClient' = IF ~open THEN <<>> ELSE selectedClient
  /\ UNCHANGED <<mounted, clients, isAddModalOpen, selectedClientId, storage, uuids, saves,
                 outsideCRM>>
  /\ toast' = "none"

\* the values the selectedClientId prop takes: undefined and the id of a stored client
SelectedClientIds == {<<>>, <<"a">>}

CRMNext ==
  \/ \E item \in StoredItems :
       \/ \E id \in SelectedClientIds : Mount("CRMView.tsx", item, id)
       \/ Mount("part_003", item, <<>>)
  \/ \E id \in SelectedClientIds : selectedClientIdChange(id)
  \/ openAddModal
  \/ onAddOpenChange(FALSE)
  \/ \E v \in FormNames : onNameChange(v)
  \/ \E v \in FormPhones : onPhoneChange(v)
  \/ \E v \in FormStatuses : onStatusChange(v)
  \/ \E v \in FormNotes : onNotesChange(v)
  \/ handleAddClient
  \/ handleUpdateClient
  \/ handleEditClient
  \/ \E i \in 1..Len(clients) : handleDeleteClient(clients[i].id)
  \/ \E i \in 1..Len(clients) : openDetailModal(clients[i])
  \/ onDetailOpenChange(FALSE)

\* the component reads no clock: one clock reading stands for all
CRMInit == Init /\ now.days = Sunday2025

CRMSpec == CRMInit /\ [][CRMNext]_vars

(***************************************************************************)
(* Properties.                                                             *)
(***************************************************************************)

\* the paths on which the rule-based extractor produced the result
FallbackVias == {"nokey", "fetch-rejected", "status", "body", "nocontent", "parse"}
RuleBasedVias == {"sync"} \cup FallbackVias

\* a call has returned
Returned == pc \in {"returned", "done"}

\* the rule-based extractor returned a record
RuleBasedRecord == Returned /\ via \in RuleBasedVias /\ ~result.isNull

\* the local variables of the rule-based run that produced the record, and those of its
\* date/time stage
Steps == steps
Cascade == steps.dateTimeInfo.stages

\* every character of s is white space
AllWhitespace(s) == \A i \in 1..Len(s) : s[i] \in Space

\* the digits of s, in order
DigitsOf(s) == SelectSeq(s, LAMBDA c : c \in Digit)

\* how often tok occurs in s
Occurrences(s, tok) == Cardinality({i \in 1..Len(s) : MatchesAt(s, i, tok)})

\* the example input of the specification
JohnDoeExample == <<"J","o","h","n"," ","D","o","e"," ","7","2","0","5","5","5","1","2","1","2"," ","w","a","n","t","s"," ","e","s","t","i","m","a","t","e"," ","T","u","e","s","d","a","y"," ","a","t"," ","3","p","m">>
WantsEstimate == <<"w","a","n","t","s"," ","e","s","t","i","m","a","t","e">>

\* C1: for every input that is not empty after trimming, the rule-based extractor
\* returns (it never raises) a record, never null, whose name, phone, datetime and
\* details are all non-empty strings, with the sentinels 'Unknown', 'No phone' and
\* 'No details provided' where the sub-extraction found nothing.
C1_Totality ==
  (Returned /\ via \in RuleBasedVias /\ ~AllWhitespace(text)) =>
    /\ outcome = "resolved"
    /\ ~result.isNull
    /\ result.name # <<>> /\ result.phone # <<>>
    /\ result.details # <<>> /\ result.datetime # <<>>
    /\ \A f \in {result.name, result.phone, result.details, result.datetime} :
         \A i \in 1..Len(f) : f[i] \in STRING
    /\ ~Steps.name.found => result.name = Unknown
    /\ ~Steps.phone.found => result.phone = NoPhoneText
    /\ AllWhitespace(Steps.remainingText) => result.details = NoDetails

\* C1 witness: an input on which all three sentinels are returned
C1_Witness ==
  /\ pc = "returned" /\ ~AllWhitespace(text)
  /\ result.name = Unknown /\ result.phone = NoPhoneText /\ result.details = NoDetails

\* the tokens of the working text that the stages of the date/time sub-extractor
\* matched: the word tomorrow, the weekday (with its next), the numeric date, the time
MatchedTokens(t) ==
  LET lower == toLowerCase(t)
      wd    == weekdayMatch(lower)
      sd    == specificDateMatch(t)
      m12   == time12HourMatch(t)
      m24   == time24HourMatch(t)
  IN  (IF includes(lower, TomorrowWord)
       THEN {SubSeq(t, indexOf(lower, TomorrowWord), indexOf(lower, TomorrowWord) + 7)}
       ELSE {})
      \cup (IF wd.found THEN {matched(t, wd)} ELSE {})
      \cup (IF sd.found THEN {matched(t, sd)} ELSE {})
      \cup (IF m12.found THEN {matched(t, m12)} ELSE {})
      \cup (IF m24.found /\ ~m12.found /\ time24(m24.g1, m24.g2).set
            THEN {matched(t, m24)} ELSE {})

\* C2: whenever the date/time sub-extractor matches a date token and/or a time token,
\* the matched token is taken out of the text that becomes the details (the details
\* hold fewer occurrences of it than the working text did); and the input
\* 'John Doe 7205551212 wants estimate Tuesday at 3pm' yields the details
\* 'wants estimate'.
C2_DetailsExcludeSpans ==
  RuleBasedRecord =>
    /\ \A tok \in MatchedTokens(Steps.afterPhone) :
         Occurrences(result.details, tok) < Occurrences(Steps.afterPhone, tok)
    /\ text = JohnDoeExample => result.details = WantsEstimate

\* C3: when the working text holds no date cue and no time cue, the returned datetime
\* is the moment of parsing.
C3_DefaultIsNow ==
  (/\ RuleBasedRecord
   /\ ~Cascade.tomorrow /\ ~Cascade.weekday /\ ~Cascade.numeric
   /\ ~Cascade.time12 /\ ~Cascade.time24)
  => result.datetime = toISOString(now, tz)

\* the remote call failed: no request was possible, fetch rejected, the status was no
\* success, the body was no JSON, it held no message content, or the content did not parse
RemoteFailed ==
  \/ via \in {"nokey", "fetch-rejected"}
  \/ /\ via # "empty"
     /\ ~response.ok \/ ~response.bodyJson \/ ~response.hasContent \/ ~response.parses

\* C4: for every input and every remote failure mode, parseAppointment resolves, never
\* rejects, and its result is what the rule-based extractor returns when called directly
\* on the same input with the same clock.
C4_FallbackDeterminism ==
  /\ outcome # "rejected"
  /\ (pc = "done" /\ RemoteFailed) =>
       /\ outcome = "resolved"
       /\ via \in FallbackVias
       /\ result = parseAppointment(text, now, tz)

\* C4 witness: the content did not parse, the clock moved while the call was
\* suspended, and the rule-based extractor found a phone
C4_Witness ==
  /\ pc = "done" /\ via = "parse" /\ ~response.parses /\ ticks > 0
  /\ ~result.isNull /\ result.phone # NoPhoneText

\* the remote content parsed to an object that lacks one of the four expected fields
RemoteFieldMissing ==
  /\ pc = "done" /\ via = "remote"
  /\ \/ ~response.parsed.name.present
     \/ ~response.parsed.phone.present
     \/ ~response.parsed.details.present
     \/ ~response.parsed.datetime.present

\* C5: if the remote response parses as JSON but lacks any of name, phone, datetime or
\* details, the remote call counts as failed as a whole: the result is the rule-based
\* extractor's output for the same input, and no record mixes remote-supplied fields
\* with per-field defaults.
C5_NoPartialAdoption ==
  RemoteFieldMissing => result = parseAppointment(text, now, tz)

\* C6: for the empty string and every whitespace-only string, the rule-based extractor
\* and the remote-first parseAppointment return null, the latter without issuing a
\* request; no other input yields null.
C6_EmptyInput ==
  Returned =>
    /\ result.isNull <=> AllWhitespace(text)
    /\ AllWhitespace(text) => requests = 0

\* C6 witnesses: a whitespace-only input (not the empty string) answered with null by
\* the remote-first parser, before any request
C6_Witness ==
  /\ pc = "done" /\ via = "empty" /\ text # <<>> /\ AllWhitespace(text)
  /\ result.isNull /\ requests = 0

\* the weekday the date/time stage finds (0 is Sunday) and the days from today the
\* claim gives for it
NamedWeekday == Cascade.targetWeekday
ClaimedOffset ==
  IF NamedWeekday - getDay(now) <= 0 \/ Cascade.isNext
  THEN NamedWeekday - getDay(now) + 7
  ELSE NamedWeekday - getDay(now)

\* the time of day the time stages chose is a time of the clock
TimeInDay == Cascade.targetTime.hours < 24 /\ Cascade.targetTime.minutes < 60

\* the Date the returned datetime is the text of, and the time of day applied to the
\* working date (09:00 when no time stage contributed)
ReturnedDate == Steps.dateTimeInfo.date
AppliedHours == IF Cascade.targetTime.set THEN Cascade.targetTime.hours ELSE 9
AppliedMinutes == IF Cascade.targetTime.set THEN Cascade.targetTime.minutes ELSE 0

\* the returned instant is the working date plus the applied hours and minutes, whatever
\* their size
ReturnedIsAppliedTime ==
  /\ (ReturnedDate.days - Cascade.targetDate.days) * 1440
       + ReturnedDate.h * 60 + ReturnedDate.mi = AppliedHours * 60 + AppliedMinutes
  /\ result.datetime = toISOString(ReturnedDate, tz)

\* the weekday and the numeric date found in the whole input, before the name and the
\* phone number are taken out
InputWeekday == weekdayMatch(toLowerCase(text))
InputOffset ==
  IF InputWeekday.targetWeekday - getDay(now) <= 0 \/ InputWeekday.isNext
  THEN InputWeekday.targetWeekday - getDay(now) + 7
  ELSE InputWeekday.targetWeekday - getDay(now)

\* C7 as stated: whenever the input holds a weekday name as a whole word and no numeric
\* date, the returned date is today + the claimed number of days (times of day that are
\* not times of the clock are left out of the statement here).
C7_InputWeekdayDecidesDate ==
  (/\ RuleBasedRecord
   /\ InputWeekday.found
   /\ ~specificDateMatch(text).found
   /\ TimeInDay)
  => ReturnedDate.days = now.days + InputOffset

\* C7: when the text the date/time stage receives, that is the input without the leading
\* name and the phone number, holds a full weekday name W as a whole word and no numeric
\* date, and today's weekday is c, the working date is today + (W - c) days, with 7 added
\* when W - c <= 0 or when the word is prefixed by next; so without next it is the first
\* W strictly after today, 1..7 days ahead, and it always falls on weekday W.  The
\* returned datetime is that date plus the applied hours and minutes, and for the example
\* input with 'Tuesday at 3pm' it is 15:00 on the next Tuesday.
C7_WeekdayResolution ==
  (RuleBasedRecord /\ Cascade.weekday /\ ~Cascade.numeric) =>
    /\ NamedWeekday \in 0..6
    /\ MatchesAt(toLowerCase(Steps.afterPhone), Cascade.weekdayAt, weekdays[NamedWeekday + 1])
    /\ Cascade.targetDate.days = now.days + ClaimedOffset
    /\ getDay(Cascade.targetDate) = NamedWeekday
    /\ ClaimedOffset \in 1..13
    /\ ~Cascade.isNext => ClaimedOffset \in 1..7
    /\ ReturnedIsAppliedTime
    /\ TimeInDay => ReturnedDate.days = now.days + ClaimedOffset
    /\ text = JohnDoeExample =>
         /\ NamedWeekday = 2
         /\ ReturnedDate = [days |-> now.days + ClaimedOffset, h |-> 15, mi |-> 0,
                            s |-> 0, ms |-> 0]

\* C7 witness: the text names today's weekday, so the date is a whole week ahead
C7_Witness ==
  /\ RuleBasedRecord /\ Cascade.weekday /\ ~Cascade.numeric /\ ~Cascade.isNext
  /\ NamedWeekday = getDay(now)
  /\ ReturnedDate.days = now.days + 7

\* the text the date/time stage receives, and the cues found in it
WorkingText == Steps.afterPhone
TomorrowCue == includes(toLowerCase(WorkingText), TomorrowWord)
WeekdayCue == weekdayMatch(toLowerCase(WorkingText))
NumericCue == specificDateMatch(WorkingText)

\* the date each date stage derives
TomorrowDate == addDays(now, 1)
WeekdayDate == addDays(now, ClaimedOffset)
NumericDate == specificDate(now, NumericCue.g1, NumericCue.g2, NumericCue.g3)

\* C8 as stated: an input that holds both the word tomorrow and a weekday name, and no
\* numeric date, has the weekday-derived date as its working date.
C8_InputCuesDecideDate ==
  (/\ RuleBasedRecord
   /\ includes(toLowerCase(text), TomorrowWord)
   /\ InputWeekday.found
   /\ ~specificDateMatch(text).found)
  => Cascade.targetDate = addDays(now, InputOffset)

\* C8: the working date is decided by the last matching stage in the fixed order
\* tomorrow, weekday, numeric date, each stage matching against the text the date/time
\* stage receives (the input without the leading name and the phone number): a numeric
\* date found there decides the date; else a weekday name found there does, also when
\* the word tomorrow is there; else tomorrow does; else the date is today.  The order of
\* the cues in the text plays no part.
C8_StageOverwrite ==
  RuleBasedRecord =>
    /\ Cascade.tomorrow <=> TomorrowCue
    /\ Cascade.weekday <=> WeekdayCue.found
    /\ Cascade.numeric <=> NumericCue.found
    /\ Cascade.targetDate =
         IF NumericCue.found THEN NumericDate
         ELSE IF WeekdayCue.found THEN WeekdayDate
         ELSE IF TomorrowCue THEN TomorrowDate
         ELSE now

\* C8 witness: a weekday name stands before the word tomorrow, the weekday-derived date
\* is not tomorrow, and it is the working date
C8_Witness ==
  /\ RuleBasedRecord
  /\ TomorrowCue /\ WeekdayCue.found /\ ~NumericCue.found
  /\ WeekdayCue.index < indexOf(toLowerCase(WorkingText), TomorrowWord)
  /\ WeekdayDate # TomorrowDate
  /\ Cascade.targetDate = WeekdayDate

\* some date stage matched
DateCue == Cascade.tomorrow \/ Cascade.weekday \/ Cascade.numeric

\* C9: when a date cue matches and no time stage contributes, the returned datetime is
\* 09:00:00.000 local time on the working date; when a time stage contributes, it is on
\* the working date with exactly the hour and the minute of that stage; seconds and
\* milliseconds are zero in both cases.
C9_TimeComposition ==
  RuleBasedRecord =>
    /\ result.datetime = toISOString(ReturnedDate, tz)
    /\ ReturnedDate.s = 0 /\ ReturnedDate.ms = 0
    /\ (DateCue /\ ~Cascade.targetTime.set) =>
         /\ ReturnedDate.days = Cascade.targetDate.days
         /\ ReturnedDate.h = 9 /\ ReturnedDate.mi = 0
    /\ Cascade.targetTime.set =>
         /\ ReturnedDate.days = Cascade.targetDate.days
         /\ ReturnedDate.h = Cascade.targetTime.hours
         /\ ReturnedDate.mi = Cascade.targetTime.minutes

\* DDD-DDD-DDDD
CanonicalPhone(p) ==
  /\ Len(p) = 12
  /\ \A i \in 1..12 : IF i \in {4, 8} THEN p[i] = "-" ELSE p[i] \in Digit

\* C10: in every record the rule-based extractor returns, the phone field is the
\* sentinel 'No phone' or has the form DDD-DDD-DDDD, ten digits in groups of 3, 3 and 4
\* separated by hyphens, and its digits are, in order, the digits of the substring the
\* phone pattern matched in the text left after the name.
C10_PhoneCanonicalForm ==
  RuleBasedRecord =>
    /\ Steps.phone.found <=> result.phone # NoPhoneText
    /\ Steps.phone.found =>
         /\ CanonicalPhone(result.phone)
         /\ Occurrences(Steps.afterName, Steps.phone.raw) > 0
         /\ DigitsOf(result.phone) = DigitsOf(Steps.phone.raw)
         /\ Len(DigitsOf(result.phone)) = 10

\* C10 witness: the matched substring holds separators the canonical form drops
C10_Witness ==
  /\ RuleBasedRecord
  /\ Steps.phone.found
  /\ DigitsOf(Steps.phone.raw) # Steps.phone.raw
  /\ CanonicalPhone(result.phone)

\* C11: for a sequence of ten digits, the canonical form ddd-ddd-dddd given to the
\* extractor comes back as the phone, unchanged, and the whole of it is the matched
\* substring; and phone extraction run on any phone the extractor returned finds that
\* same phone again, the whole of it.
C11_PhoneRoundTrip ==
  RuleBasedRecord =>
    /\ (Len(DigitsOf(text)) = 10 /\ text = formatPhone(DigitsOf(text))) =>
         /\ result.phone = text
         /\ Steps.phone.raw = text
    /\ Steps.phone.found =>
         extractPhone(result.phone) =
           [found |-> TRUE, raw |-> result.phone, formatted |-> result.phone]

\* C11 witness: a canonical phone of more than one digit value came back unchanged
C11_Witness ==
  /\ RuleBasedRecord
  /\ text \in CanonicalPhones
  /\ \E i, j \in 1..Len(text) : text[i] \in Digit /\ text[j] \in Digit /\ text[i] # text[j]
  /\ result.phone = text
  /\ extractPhone(result.phone).formatted = text

\* the digits of s stand side by side, as one run
OneDigitRun(s) ==
  \A i, j \in 1..Len(s) :
    (i < j /\ s[i] \in Digit /\ s[j] \in Digit) => \A k \in i..j : s[k] \in Digit

\* C12: an input whose digits form one run of 11 or more digits, or that holds fewer
\* than 10 digits in all, yields the phone 'No phone', and its digits stay in the
\* working text.
C12_OnlyTenDigitRuns ==
  (/\ RuleBasedRecord
   /\ \/ OneDigitRun(text) /\ Len(DigitsOf(text)) >= 11
      \/ Len(DigitsOf(text)) < 10)
  => /\ result.phone = NoPhoneText
     /\ DigitsOf(Steps.afterPhone) = DigitsOf(text)

\* the text begins, after trimming, with a capital letter and a lowercase letter
BeginsCapitalised(s) == Len(trim(s)) >= 2 /\ trim(s)[1] \in Upper /\ trim(s)[2] \in Lower

BobWord == <<"B","o","b">>

\* C13: when the trimmed input does not begin with a capital letter followed by a
\* lowercase letter, the name is 'Unknown' whatever capitalised words come later, and
\* nothing is taken out of the working text for a name; 'call Bob tomorrow' gives the
\* name 'Unknown' and keeps 'Bob' in the working text.
C13_NameAtStartOnly ==
  (RuleBasedRecord /\ ~BeginsCapitalised(text)) =>
    /\ result.name = Unknown
    /\ ~Steps.name.found
    /\ Steps.afterName = trim(text)
    /\ text = CallBobTomorrow =>
         /\ Occurrences(Steps.afterPhone, BobWord) = 1
         /\ Occurrences(result.details, BobWord) = 1

\* C13 witness: 'call Bob tomorrow' was parsed; the name is 'Unknown' and the details
\* hold 'Bob'
C13_Witness ==
  /\ RuleBasedRecord
  /\ text = CallBobTomorrow
  /\ result.name = Unknown
  /\ Occurrences(result.details, BobWord) = 1

\* the end of the longest run of capitalised words, each one space after the one
\* before, that begins with a word ending at e
RECURSIVE SingleSpacedRunEnd(_, _)
SingleSpacedRunEnd(s, e) ==
  IF e + 2 <= Len(s) /\ s[e + 1] = " " /\ capWordEnd(s, e + 2) > 0
  THEN SingleSpacedRunEnd(s, capWordEnd(s, e + 2))
  ELSE e

\* C14: the name is the longest prefix of the text made of capitalised words separated
\* by single spaces; a capitalised word that follows two or more spaces, a tab or a
\* newline is not part of it.
C14_NameRunShape ==
  (RuleBasedRecord /\ BeginsCapitalised(text)) =>
    /\ Steps.name.found
    /\ Steps.name.value = SubSeq(trim(text), 1, SingleSpacedRunEnd(trim(text), capWordEnd(trim(text), 1)))
    /\ result.name = Steps.name.value

\* C15: in one call of the remote-first parseAppointment at most one request is
\* issued; after a failed attempt fallbackParser is called exactly once, its value is
\* the result, and no second request follows.  A call that issues no request, or whose
\* remote answer is used, calls fallbackParser at most once too.
C15_SingleRemoteAttempt ==
  /\ requests <= 1
  /\ fallbacks <= 1
  /\ (pc = "done" /\ requests = 1 /\ via # "remote") =>
       /\ RemoteFailed \/ response.parsed.isNull
       /\ via \in FallbackVias
       /\ fallbacks = 1
       /\ result = fallbackParser(text, now, tz)
  /\ (pc = "done" /\ via = "remote") => fallbacks = 0

\* C15 witness: the one request was rejected and the fallback ran once
C15_Witness ==
  /\ pc = "done" /\ via = "fetch-rejected"
  /\ requests = 1 /\ fallbacks = 1
  /\ ~result.isNull

\* C16: after any sequence of handleParse and handleDelete from the two seeded
\* appointments, the ids of the stored appointments are pairwise distinct, also when two
\* appointments are added at one clock reading.
C16_UniqueIds ==
  \A i, j \in 1..Len(appointments) :
    i # j => appointments[i].id # appointments[j].id

\* s without the n characters from position i on
RemoveAt(s, i, n) == SubSeq(s, 1, i - 1) \o SubSeq(s, i + n, Len(s))

\* the position of the first occurrence of sub in s
FirstAt(s, sub) ==
  CHOOSE i \in 1..Len(s) : MatchesAt(s, i, sub) /\ \A j \in 1..(i - 1) : ~MatchesAt(s, j, sub)

\* sub occurs in s again after its first occurrence, not overlapping it
OccursAgain(s, sub) ==
  \E j \in (FirstAt(s, sub) + Len(sub))..Len(s) : MatchesAt(s, j, sub)

\* C17: after a successful name or phone sub-extraction the working text is the text
\* before it with exactly one occurrence of the matched substring deleted, the first
\* one, and trimmed; when the same substring occurs again later, that occurrence stays in
\* the working text and appears in the details.
C17_FirstOccurrenceRemoval ==
  RuleBasedRecord =>
    /\ Steps.name.found =>
         /\ Steps.afterName =
              trim(RemoveAt(trim(text), FirstAt(trim(text), Steps.name.value),
                            Len(Steps.name.value)))
         /\ OccursAgain(trim(text), Steps.name.value) =>
              /\ Occurrences(Steps.afterName, Steps.name.value) > 0
              /\ Occurrences(result.details, Steps.name.value) > 0
    /\ Steps.phone.found =>
         /\ Steps.afterPhone =
              trim(RemoveAt(Steps.afterName, FirstAt(Steps.afterName, Steps.phone.raw),
                            Len(Steps.phone.raw)))
         /\ OccursAgain(Steps.afterName, Steps.phone.raw) =>
              /\ Occurrences(Steps.afterPhone, Steps.phone.raw) > 0
              /\ Occurrences(result.details, Steps.phone.raw) > 0

\* C17 witness: the phone number was written twice; one is left in the details
C17_Witness ==
  /\ RuleBasedRecord
  /\ Steps.phone.found
  /\ Occurrences(Steps.afterName, Steps.phone.raw) = 2
  /\ Occurrences(Steps.afterPhone, Steps.phone.raw) = 1
  /\ Occurrences(result.details, Steps.phone.raw) = 1

\* the hour of the day for the hour h of a 12-hour time
HourOfDay(h, isPm) ==
  IF h = 12 THEN (IF isPm THEN 12 ELSE 0) ELSE IF isPm THEN h + 12 ELSE h

\* the 12-hour time found in the working text
Time12Cue == time12HourMatch(WorkingText)

\* C18: for a matched time H or H:MM with an am or pm suffix in any letter case, the
\* applied hour is 0 for 12am, 12 for 12pm, H + 12 for any other pm hour and H for any
\* other am hour, and the applied minute is MM, or 0 when MM is left out.
C18_TwelveHourConversion ==
  RuleBasedRecord =>
    /\ Cascade.time12 <=> Time12Cue.found
    /\ Time12Cue.found =>
         /\ Cascade.targetTime.set
         /\ Cascade.targetTime.hours =
              HourOfDay(parseInt(Time12Cue.g1), Time12Cue.meridiem = <<"p","m">>)
         /\ Cascade.targetTime.minutes =
              IF Time12Cue.g2 = <<>> THEN 0 ELSE parseInt(Time12Cue.g2)
    /\ \A c \in (IF text \in Time12Inputs THEN Time12Cases ELSE {}) :
         text = time12Text(c) =>
           /\ Cascade.time12
           /\ Cascade.targetTime.hours = HourOfDay(c.h, toLowerCase(c.suffix) = <<"p","m">>)
           /\ Cascade.targetTime.minutes = IF c.withMinute THEN c.mm ELSE 0

\* C18 witness: 12 with minutes and an upper-case AM gave hour 0
C18_Witness ==
  /\ RuleBasedRecord
  /\ Cascade.time12
  /\ Time12Cue.g1 = <<"1","2">> /\ Time12Cue.g2 = <<"3","0">>
  /\ SubSeq(WorkingText, Time12Cue.end - 1, Time12Cue.end) = <<"A","M">>
  /\ Cascade.targetTime.hours = 0 /\ Cascade.targetTime.minutes = 30

\* the first H:MM token of the working text, and whether it is a time of the clock
Time24Cue == time24HourMatch(WorkingText)
Time24Valid == parseInt(Time24Cue.g1) < 24 /\ parseInt(Time24Cue.g2) < 60

\* the date token the date stages matched, as the matched span holds it
DateToken == dateStages(WorkingText, toLowerCase(WorkingText), now).matchedText

\* C19: an H:MM time contributes only when the 12-hour stage did not match and
\* 0 <= hour < 24 and 0 <= minute < 60, and then it is the applied time; an H:MM out of
\* range raises no error and contributes no time, so the time is 09:00:00 and the token
\* is not in the matched span; when the text holds a 12-hour time, that one is applied
\* and no H:MM token is, wherever the two stand.
C19_TwentyFourHourGuard ==
  RuleBasedRecord =>
    /\ outcome = "resolved"
    /\ Cascade.time24 <=> (Time24Cue.found /\ ~Time12Cue.found /\ Time24Valid)
    /\ Cascade.time24 =>
         Cascade.targetTime = [set |-> TRUE, hours |-> parseInt(Time24Cue.g1),
                               minutes |-> parseInt(Time24Cue.g2)]
    /\ (Time24Cue.found /\ ~Time12Cue.found /\ ~Time24Valid) =>
         /\ ~Cascade.targetTime.set
         /\ ReturnedDate = [days |-> Cascade.targetDate.days, h |-> 9, mi |-> 0,
                            s |-> 0, ms |-> 0]
         /\ Steps.dateTimeInfo.raw = trim(DateToken)
         /\ Occurrences(Steps.dateTimeInfo.raw, matched(WorkingText, Time24Cue)) = 0
    /\ Time12Cue.found =>
         /\ ~Cascade.time24
         /\ Cascade.targetTime.hours =
              HourOfDay(parseInt(Time12Cue.g1), Time12Cue.meridiem = <<"p","m">>)
         /\ Steps.dateTimeInfo.raw = trim(DateToken \o <<" ">> \o matched(WorkingText, Time12Cue))
    /\ \A c \in (IF text \in Time24Inputs THEN Time24Cases ELSE {}) :
         text = time24Text(c) =>
           IF c.h < 24 /\ c.mm < 60
           THEN ReturnedDate.h = c.h /\ ReturnedDate.mi = c.mm
           ELSE ReturnedDate.h = 9 /\ ReturnedDate.mi = 0

\* C19 witness: 'tomorrow 24:00' gave 09:00 tomorrow, and the matched span is 'tomorrow'
C19_Witness ==
  /\ RuleBasedRecord
  /\ Cascade.tomorrow
  /\ Time24Cue.found /\ Time24Cue.g1 = <<"2","4">> /\ Time24Cue.g2 = <<"0","0">>
  /\ ~Cascade.targetTime.set
  /\ ReturnedDate = [days |-> now.days + 1, h |-> 9, mi |-> 0, s |-> 0, ms |-> 0]
  /\ Steps.dateTimeInfo.raw = TomorrowWord

\* the year the claim gives for a written year g3: the current year, 2000 + YY, or the
\* year as written
ClaimedYear(g3) ==
  IF g3 = <<>> THEN CivilFromDays(now.days).y
  ELSE IF Len(g3) = 2 THEN 2000 + parseInt(g3)
  ELSE parseInt(g3)

\* the year the date is counted from: a written year below 100 means 1900 + that year
CountedYear(y) == IF y < 100 THEN 1900 + y ELSE y

\* the day number D - 1 days after the first day of month M of year y, the months
\* beyond December counting into the following years and month 0 being the December before
OverflowDay(y, M, D) ==
  DaysFromCivil(y + (M - 1) \div 12, ((M - 1) % 12) + 1, 1) + D - 1

\* the working date counts from year y as the claim states it
ForwardFrom(y, M, D, days) ==
  /\ days = OverflowDay(y, M, D)
  /\ days >= DaysFromCivil(y, 1, 1)

\* C20 as stated: M/D counts from the current year, M/D/YY from 2000 + YY and M/D/YYYY
\* from the year YYYY, and a month or day out of range moves the date forward, into a
\* following month or year, never before the year named.
C20_YearAsWrittenOverflowForward ==
  LET g == NumericCue
  IN  (RuleBasedRecord /\ g.found /\ Len(g.g3) \in {0, 2, 4}) =>
        ForwardFrom(ClaimedYear(g.g3), parseInt(g.g1), parseInt(g.g2),
                    Cascade.targetDate.days)

\* the working date is the one of month M, day D counted from year y
ResolvedFrom(y, M, D, date, civil) ==
  /\ date = [days |-> OverflowDay(y, M, D), h |-> 0, mi |-> 0, s |-> 0, ms |-> 0]
  /\ (M \in 1..12 /\ D \in 1..28) => civil = [y |-> y, m |-> M, d |-> D]
  /\ (M >= 1 /\ D >= 1) => date.days >= DaysFromCivil(y, 1, 1)
  /\ ((M = 0 /\ D <= 31) \/ (M = 1 /\ D = 0)) => civil.y = y - 1
  /\ (M = 2 /\ D = 30) => civil.m = 3 /\ civil.d \in {1, 2}
  /\ (M = 13 /\ D = 1) => civil = [y |-> y + 1, m |-> 1, d |-> 1]

\* C20: a matched M/D counts from the current year, M/D/YY from 2000 + YY, and a year
\* written with three or four digits from that year, where a written year below 100
\* means 1900 + that year; month and day are not validated and raise no error: the
\* working date is midnight of the day D - 1 days after the first day of month M, so a
\* day or month too large (2/30, 13/1) lands in a following month or year, a month or day
\* of 0 in the preceding one, and a valid M/D on that very day.
C20_NumericDateResolution ==
  LET g == NumericCue
  IN  RuleBasedRecord =>
        /\ outcome = "resolved"
        /\ Cascade.numeric <=> g.found
        /\ g.found =>
             /\ ResolvedFrom(CountedYear(ClaimedYear(g.g3)), parseInt(g.g1), parseInt(g.g2),
                             Cascade.targetDate, CivilFromDays(Cascade.targetDate.days))
             /\ ReturnedIsAppliedTime

\* C20 witness: 2/30 without a year, parsed in the leap year 2024, is the first of March
C20_Witness ==
  /\ RuleBasedRecord
  /\ NumericCue.found /\ NumericCue.g3 = <<>>
  /\ parseInt(NumericCue.g1) = 2 /\ parseInt(NumericCue.g2) = 30
  /\ CivilFromDays(Cascade.targetDate.days) = [y |-> 2024, m |-> 3, d |-> 1]

\* the working text holds the letters of tomorrow, in any case, at position i
TomorrowLettersAt(s, i) ==
  /\ i + 7 <= Len(s)
  /\ \A k \in 1..8 : s[i + k - 1] \in {TomorrowWord[k], UpperSeq[CHOOSE n \in 1..26 : LowerSeq[n] = TomorrowWord[k]]}

\* C21: a working text that holds the letters t-o-m-o-r-r-o-w in any letter case, also
\* inside a longer word, and holds no weekday name and no numeric date, has the working
\* date now + 1 calendar day, rolling over the ends of months and years; a working text
\* without these letters does not take the tomorrow stage.
C21_TomorrowSubstring ==
  LET cue == \E i \in 1..Len(WorkingText) : TomorrowLettersAt(WorkingText, i)
  IN  RuleBasedRecord =>
        /\ Cascade.tomorrow <=> cue
        /\ (cue /\ ~Cascade.weekday /\ ~Cascade.numeric) =>
             /\ Cascade.targetDate = [now EXCEPT !.days = now.days + 1]
             /\ ReturnedIsAppliedTime

\* C21 witness: the word stands inside tomorrowland, on the last day of a year, and the
\* working date is the first day of the next year
C21_Witness ==
  /\ RuleBasedRecord
  /\ includes(toLowerCase(WorkingText), <<"t","o","m","o","r","r","o","w","l","a","n","d">>)
  /\ ~Cascade.weekday /\ ~Cascade.numeric
  /\ CivilFromDays(now.days).m = 12 /\ CivilFromDays(now.days).d = 31
  /\ CivilFromDays(Cascade.targetDate.days) = [y |-> CivilFromDays(now.days).y + 1, m |-> 1, d |-> 1]

\* the weekday name number k written with a capital first letter
UpperOf(c) == UpperSeq[CHOOSE n \in 1..26 : LowerSeq[n] = c]
CapitalisedWeekday(k) == <<UpperOf(Head(weekdays[k]))>> \o Tail(weekdays[k])

\* the capitalised weekday number k is a word of the run of capitalised words the
\* trimmed input t0 begins with, at position i
WeekdayInLeadingRun(t0, i, k) ==
  /\ MatchesAt(t0, i, CapitalisedWeekday(k))
  /\ At(t0, i + Len(weekdays[k])) \notin Lower
  /\ i = 1 \/ At(t0, i - 1) \in Space
  /\ capWordEnd(t0, 1) > 0
  /\ i + Len(weekdays[k]) - 1 <= nameRunEnd(t0, capWordEnd(t0, 1))
LeadingWeekdays(t0) ==
  {p \in (1..Len(t0)) \X DOMAIN weekdays : WeekdayInLeadingRun(t0, p[1], p[2])}

\* the working text holds no date cue at all
NoDateCue == ~TomorrowCue /\ ~WeekdayCue.found /\ ~NumericCue.found

\* C22: when the trimmed input begins with a capitalised weekday name, or one directly
\* follows the capitalised words it begins with, that word is part of the name, it is
\* removed with the name before the date/time stage, and it contributes no date: with
\* no other date cue in the working text the weekday stage does not match and the
\* working date is today, the returned datetime being today with the applied time.
C22_WeekdayAbsorbedByName ==
  LET t0 == trim(text)
      absorbed == LeadingWeekdays(t0)
  IN  (RuleBasedRecord /\ absorbed # {}) =>
        /\ \A p \in absorbed :
             SubSeq(result.name, p[1], p[1] + Len(weekdays[p[2]]) - 1) = CapitalisedWeekday(p[2])
        /\ Steps.afterName = trim(SubSeq(t0, Len(result.name) + 1, Len(t0)))
        /\ NoDateCue =>
             /\ ~Cascade.weekday
             /\ Cascade.targetDate = now
             /\ ReturnedIsAppliedTime
             /\ (AppliedHours < 24 /\ AppliedMinutes < 60) => ReturnedDate.days = now.days

\* C22 witness: 'Sarah Smith Tuesday at 3pm' parsed on a day that is not a Tuesday has
\* the name 'Sarah Smith Tuesday' and the datetime 15:00 today
C22_Witness ==
  /\ RuleBasedRecord
  /\ text = <<"S","a","r","a","h"," ","S","m","i","t","h"," ","T","u","e","s","d","a","y"," ","a","t"," ","3","p","m">>
  /\ result.name = <<"S","a","r","a","h"," ","S","m","i","t","h"," ","T","u","e","s","d","a","y">>
  /\ getDay(now) # 2
  /\ ReturnedDate = [days |-> now.days, h |-> 15, mi |-> 0, s |-> 0, ms |-> 0]

\* C23: after at least one successful add, update or delete in CRMView, the item stored
\* under STORAGE_KEY is the JSON serialisation of exactly the in-memory clients list, in
\* the same order.
C23_RegistryInSync ==
  saves > 0 =>
    /\ storage.present
    /\ storage.value = stringify(clients)

\* C23 witness: a stored client was deleted and a new one added, and the store holds the
\* two clients of the list in their order
C23_Witness ==
  /\ saves = 2
  /\ Len(clients) = 2
  /\ clients[1].id = <<"b">> /\ clients[2].id = <<"u", "1">>
  /\ storage.value = <<"[">> \o jsonClient(clients[1]) \o <<",">> \o jsonClient(clients[2]) \o <<"]">>

\* C24: every record parseAppointment returns on the remote-success path has the phone
\* 'No phone' or a phone of the form DDD-DDD-DDDD, also when the remote supplies a phone
\* whose digit count is not 10.
C24_RemotePhoneShape ==
  (pc = "done" /\ via = "remote" /\ ~result.isNull) =>
    result.phone = NoPhoneText \/ CanonicalPhone(result.phone)

\* C25: the time of day applied to the working date is a time of the clock, the hour in
\* 0..23 and the minute in 0..59, so the returned datetime is on the calendar day the
\* date stages chose.
C25_AppliedTimeValid ==
  RuleBasedRecord =>
    /\ AppliedHours \in 0..23
    /\ AppliedMinutes \in 0..59
    /\ ReturnedDate.days = Cascade.targetDate.days

\* where the matched phone substring stands in the text left after the name
PhoneAt == indexOf(Steps.afterName, Steps.phone.raw)

\* C26: the matched phone substring is one token: no digit stands directly before or
\* after it and it holds the digits of one number only; in '12/20/2025 3035551234' the
\* phone is 303-555-1234 and the date stage still finds 12/20/2025.
C26_PhoneInsideOneToken ==
  (RuleBasedRecord /\ Steps.phone.found) =>
    /\ At(Steps.afterName, PhoneAt - 1) \notin Digit
    /\ At(Steps.afterName, PhoneAt + Len(Steps.phone.raw)) \notin Digit
    /\ text = <<"1","2","/","2","0","/","2","0","2","5"," ","3","0","3","5","5","5","1","2","3","4">> =>
         /\ result.phone = <<"3","0","3","-","5","5","5","-","1","2","3","4">>
         /\ Cascade.numeric
         /\ CivilFromDays(Cascade.targetDate.days) = [y |-> 2025, m |-> 12, d |-> 20]

\* C27: in CRMView.tsx the closed client detail dialog opens only by a click on a client
\* or by a change of the selectedClientId prop: no step that adds, updates or deletes a
\* client opens it.
C27_DismissedStaysClosed ==
  [][(mounted = "CRMView.tsx" /\ ~isDetailModalOpen /\ isDetailModalOpen')
       => (selectedClientId' # selectedClientId \/ (clients' = clients /\ saves' = saves))]_vars

\* the form's name or phone is empty after trimming
BlankForm == AllWhitespace(formData.name) \/ AllWhitespace(formData.phone)

\* the positions of the clients with the id
PositionsOf(list, id) == {i \in 1..Len(list) : list[i].id = id}

\* the client the form describes, with the id
FormClient(id) ==
  [id |-> id, name |-> trim(formData.name), phone |-> trim(formData.phone),
   status |-> formData.status, notes |-> trim(formData.notes)]

\* the store holds the list the step leaves
StoredAfter == storage' = [present |-> TRUE, value |-> stringify(clients')]

\* C28: handleAddClient, handleUpdateClient (handleEditClient in src/unnamed/part_003)
\* with a name or a phone that is empty after trimming leave the clients list, the store,
\* the dialogs and the form as they are; a successful add appends a client with the
\* trimmed name, phone and notes; a successful update keeps the length of the list and
\* every client's id and position, gives the selected client the trimmed values and
\* leaves the others alone; a delete removes exactly the client with the id given; the
\* store holds the new list after each.
C28_RejectedEditsChangeNothing ==
  [][/\ (BlankForm /\ (handleAddClient \/ handleUpdateClient \/ handleEditClient)) =>
          UNCHANGED <<clients, storage, isAddModalOpen, isDetailModalOpen, formData, selectedClient>>
     /\ (~BlankForm /\ handleAddClient) =>
          /\ Len(clients') = Len(clients) + 1
          /\ SubSeq(clients', 1, Len(clients)) = clients
          /\ clients'[Len(clients')] = FormClient(clients'[Len(clients')].id)
          /\ PositionsOf(clients, clients'[Len(clients')].id) = {}
          /\ StoredAfter
     /\ (~BlankForm /\ (handleUpdateClient \/ handleEditClient)) =>
          /\ Len(clients') = Len(clients)
          /\ \A i \in 1..Len(clients) :
               clients'[i] = IF clients[i].id = selectedClient[1].id
                             THEN FormClient(clients[i].id) ELSE clients[i]
          /\ StoredAfter
     /\ \A i \in 1..Len(clients) :
          handleDeleteClient(clients[i].id) =>
            /\ clients' = SelectSeq(clients, LAMBDA c : c.id # clients[i].id)
            /\ Len(clients') = Len(clients) - 1
            /\ StoredAfter
    ]_vars

\* C28 witness: a name of one space was rejected in the Add Client dialog after an
\* earlier save: the dialog is open, the form is as typed, and the store holds the list
C28_Witness ==
  /\ toast = "Name and phone are required"
  /\ isAddModalOpen
  /\ formData.name = <<" ">> /\ formData.phone = <<"5","5","5"," ">>
  /\ saves = 1
  /\ storage.value = stringify(clients)

\* the appointment is in the list
Listed(appointment) == \E i \in 1..Len(appointments) : appointments[i] = appointment

\* C29: in every state of App, an open details dialog has a selectedEvent that is not null
\* and is an appointment of the list; and handleDelete(id) removes all and only the
\* appointments with that id, keeps the others in their order, and closes the dialog.
C29_ModalShowsListedAppointment ==
  /\ [](isModalOpen => (selectedEvent # <<>> /\ Listed(selectedEvent[1])))
  /\ [][\A id \in DeleteButtons :
          handleDelete(id) =>
            /\ appointments' = SelectSeq(appointments, LAMBDA apt : apt.id # id)
            /\ \A i \in 1..Len(appointments') : appointments'[i].id # id
            /\ Len(appointments') =
                 Len(appointments) - Cardinality({i \in 1..Len(appointments) : appointments[i].id = id})
            /\ ~isModalOpen']_vars

\* C29 witness: the appointment of the dialog was deleted, and the dialog is closed
C29_Witness ==
  /\ selectedEvent # <<>>
  /\ ~Listed(selectedEvent[1])
  /\ ~isModalOpen
  /\ Len(appointments) >= 2

\* what the two phone patterns find in the text left after the name
Pattern1Match == firstMatch(Steps.afterName, phonePattern1End)
Pattern2Match == firstMatch(Steps.afterName, phonePattern2End)

\* the first pattern's match holds exactly 10 digits, and the phone is the one the first
\* pattern alone yields
FirstPatternDecides(t, m1, m2) ==
  /\ m1.found => Len(stripNonDigits(matched(t, m1))) = 10
  /\ m2.found => m1.found
  /\ Steps.phone = phoneAttempt(t, m1)
  /\ Steps.phone.found <=> m1.found

\* C30: whenever the first phone pattern matches, its match holds exactly 10 digits, so
\* the digit-count rejection never fires; whenever the second pattern matches, the first
\* matches too; hence extractPhone returns what the first pattern alone yields.
C30_SecondPatternRedundant ==
  RuleBasedRecord => FirstPatternDecides(Steps.afterName, Pattern1Match, Pattern2Match)

\* C30 witness: a bare run of ten digits, which the second pattern matches, is returned
\* as the match of the first
C30_Witness ==
  /\ RuleBasedRecord
  /\ Pattern2Match.found
  /\ Steps.phone.found
  /\ Steps.phone.raw = matched(Steps.afterName, Pattern2Match)
  /\ Len(Steps.phone.raw) = 10

=============================================================================
